---- MODULE Spec2Model ----
(***************************************************************************)
(* Model of the semantic-search subsystem of the office expense system:    *)
(* the embedding service (FAISS index + durable embeddings table), the     *)
(* record-creating services and routes, the startup hook, and the          *)
(* hybrid semantic/lexical search of SearchService.semantic_search.        *)
(*                                                                         *)
(* Strings are modelled as sequences of lower-case words; a substring      *)
(* test of a single word against a text is a test against the words of     *)
(* that text (a run of word characters lies inside one word).              *)
(* Similarities and score boosts are integers: hundredths and tenths.      *)
(***************************************************************************)
EXTENDS Integers, Sequences, FiniteSets, TLC

\* ------------------------------------------------------------------ bounds
MaxExpenses == 2
MaxClaims == 1
MaxLimit == 1
MaxWorkerOps == 1
MaxLoads == 2
MaxConnections == 2

\* ----------------------------------------------------------- environment
\* datetime.now(): the month and year of the running process
NowMonth == 12
NowYear == 2025

Users == {1, 2}

\* users.full_name, lower-cased words
full_name(u) == IF u = 1 THEN <<"gaurav">> ELSE <<"priya">>

NoText == <<>>

\* ExpenseCreate payloads the routes are driven with
ExpenseInputs ==
  { [user_id |-> 1, month |-> 11, year |-> 2025, amount |-> 500,
     label |-> <<"chocolate", "cake">>, item |-> <<"cake">>,
     category |-> <<"food">>, description |-> <<"birthday", "for", "gaurav">>,
     gst_eligible |-> FALSE],
    [user_id |-> 2, month |-> 12, year |-> 2025, amount |-> 1200,
     label |-> <<"team", "lunch">>, item |-> <<"lunch">>,
     category |-> <<"food">>, description |-> NoText,
     gst_eligible |-> TRUE],
    [user_id |-> 1, month |-> 11, year |-> 2025, amount |-> 500,
     label |-> <<"petrol">>, item |-> <<"fuel">>,
     category |-> <<"travel">>, description |-> NoText,
     gst_eligible |-> FALSE],
    [user_id |-> 1, month |-> 12, year |-> 2025, amount |-> 500,
     label |-> <<"petrol">>, item |-> <<"fuel">>,
     category |-> <<"travel">>, description |-> NoText,
     gst_eligible |-> TRUE] }

\* form fields of POST /api/gst/claims (category is always "other")
ClaimInputs ==
  { [user_id |-> 2, vendor |-> <<"acme", "travel">>, amount |-> 1000, gst_rate |-> 18],
    [user_id |-> 1, vendor |-> <<"cake", "shop">>, amount |-> 500, gst_rate |-> 5] }

\* created_at values of claims (utcnow at creation; earlier for stored ones)
ClaimDates == { [month |-> 11, year |-> 2025], [month |-> NowMonth, year |-> NowYear] }

\* -------------------------------------------------------------- variables
VARIABLES
  expenses,        \* table expenses: id -> row
  next_expense_id, \* AUTO_INCREMENT of expenses
  gst_claims,      \* table gst_claims: id -> row
  next_claim_id,   \* AUTO_INCREMENT of gst_claims
  embeddings,      \* table embeddings, in primary-key order
  unique_index,    \* uq_embeddings_item exists on embeddings
  index,           \* EmbeddingService.index: the vectors, slot s at s+1
  id_map,          \* EmbeddingService.id_map: slot -> <<item_type, item_id>>
  schema_ready,    \* EmbeddingService._schema_ready
  pc,              \* "boot" before the startup hook has run, then "serving"
  load_calls,      \* number of calls of load_from_db in this process
  startup_log,     \* what the startup hook logged and printed
  response,        \* the response of the request being handled, until it is sent
  workers,         \* other processes on the same database: their upsert calls
  active_connections \* ConnectionManager.active_connections: the open websockets

vars == <<expenses, next_expense_id, gst_claims, next_claim_id, embeddings,
          unique_index, index, id_map, schema_ready, pc, load_calls,
          startup_log, response, workers, active_connections>>

db_vars == <<expenses, next_expense_id, gst_claims, next_claim_id, embeddings, unique_index>>
service_vars == <<index, id_map, schema_ready>>
process_vars == <<pc, load_calls, startup_log, active_connections>>

NoResponse == [op |-> "none"]

\* Optional[...] = None of a request field (schemas.search.SearchRequest)
None == -1

\* the truth value of "if x and ..." on an optional number
Truthy(x) == x # None /\ x # 0
NoLog == [outcome |-> "none", backfilled |-> 0, loaded |-> 0, error |-> "none"]

\* ------------------------------------------------------------ small tools
RECURSIVE SortedIds(_)
SortedIds(S) ==
  IF S = {} THEN <<>>
  ELSE LET m == CHOOSE x \in S : \A y \in S : x <= y
       IN <<m>> \o SortedIds(S \ {m})

Max(a, b) == IF a >= b THEN a ELSE b

\* ------------------------------------------------- Record Text Projector
\* EmbeddingService.generate_text: label item category dates amount rupees [description]
generate_text(expense) ==
  [kind |-> "expense", label |-> expense.label, item |-> expense.item,
   category |-> expense.category, month |-> expense.month, year |-> expense.year,
   amount |-> expense.amount, description |-> expense.description]

\* EmbeddingService.generate_gst_text: vendor category dates amount "gst tax vat" gst amount/rate [user]
generate_gst_text(claim) ==
  [kind |-> "gst_claim", vendor |-> claim.vendor, category |-> claim.category,
   month |-> claim.created_at.month, year |-> claim.created_at.year,
   amount |-> claim.amount, gst_amount |-> claim.gst_amount,
   gst_rate |-> claim.gst_rate, user |-> full_name(claim.user_id)]

\* EmbeddingService.create_embedding: the model is a function of the text
create_embedding(text) == [vec |-> text]

\* json.dumps(embedding_vector.tolist()) and json.loads of the stored string
json_dumps(vector) == <<"json", vector>>
Malformed == <<"malformed">>
json_ok(stored) == Len(stored) = 2 /\ stored[1] = "json"
json_loads(stored) == stored[2]

\* --------------------------------------------------- embeddings table ops
RowKey(row) == <<row.item_type, row.item_id>>

RowsFor(rows, item_type, item_id) ==
  { i \in 1..Len(rows) : RowKey(rows[i]) = <<item_type, item_id>> }

\* db.query(Embedding).filter(...).first(): position of the row, 0 for None
SelectExisting(rows, item_type, item_id) ==
  IF RowsFor(rows, item_type, item_id) = {} THEN 0
  ELSE CHOOSE i \in RowsFor(rows, item_type, item_id) :
         \A j \in RowsFor(rows, item_type, item_id) : i <= j

NewRow(item_type, item_id, text_value, embedding_vector) ==
  [item_type |-> item_type, item_id |-> item_id, text |-> text_value,
   embedding_vector |-> json_dumps(embedding_vector)]

\* a table without the unique index on (item_type, item_id): no INSERT is refused
InsertNeverRefused(rows, uq, item_type, item_id) == FALSE

\* the INSERT of a row is refused by uq_embeddings_item when the key is taken
InsertRefused(rows, uq, item_type, item_id) ==
  uq /\ RowsFor(rows, item_type, item_id) # {}

\* an upsert that inserts whether or not the SELECT found a row
WriteAlwaysInserts(rows, uq, found, item_type, item_id, text_value, embedding_vector) ==
  IF InsertRefused(rows, uq, item_type, item_id)
  THEN [raised |-> TRUE, rows |-> rows]
  ELSE [raised |-> FALSE,
        rows |-> Append(rows, NewRow(item_type, item_id, text_value, embedding_vector))]

\* the write half of _upsert_embedding_record, given what the SELECT returned;
\* existing_key is the key of the row the SELECT found (<<>> for None)
WriteUpsert(rows, uq, found, item_type, item_id, text_value, embedding_vector) ==
  IF found
  THEN [raised |-> FALSE,
        rows |-> [i \in 1..Len(rows) |->
                   IF RowKey(rows[i]) = <<item_type, item_id>>
                      /\ i = SelectExisting(rows, item_type, item_id)
                   THEN [rows[i] EXCEPT !.text = text_value,
                                        !.embedding_vector = json_dumps(embedding_vector)]
                   ELSE rows[i]]]
  ELSE IF InsertRefused(rows, uq, item_type, item_id)
       THEN [raised |-> TRUE, rows |-> rows]
       ELSE [raised |-> FALSE,
             rows |-> Append(rows, NewRow(item_type, item_id, text_value, embedding_vector))]

\* EmbeddingService._upsert_embedding_record run without interruption
upsert_embedding_record(rows, uq, item_type, item_id, text_value, embedding_vector) ==
  WriteUpsert(rows, uq, SelectExisting(rows, item_type, item_id) # 0,
              item_type, item_id, text_value, embedding_vector)

\* ------------------------------------------------------ Vector Index Store
\* an add that works on a size read before another writer's append: it
\* takes the slot that writer took
add_vector_stale_size(ix, item_type, item_id, embedding_vector) ==
  [index |-> Append(ix.index, embedding_vector),
   id_map |-> [s \in DOMAIN ix.id_map \cup {Max(Len(ix.index) - 1, 0)} |->
                 IF s = Max(Len(ix.index) - 1, 0) THEN <<item_type, item_id>>
                 ELSE ix.id_map[s]]]

\* an add that reads the index size after the append
add_vector_count_after(ix, item_type, item_id, embedding_vector) ==
  [index |-> Append(ix.index, embedding_vector),
   id_map |-> [s \in DOMAIN ix.id_map \cup {Len(ix.index) + 1} |->
                 IF s = Len(ix.index) + 1 THEN <<item_type, item_id>> ELSE ix.id_map[s]]]

\* EmbeddingService._add_vector_to_index
add_vector_to_index(ix, item_type, item_id, embedding_vector) ==
  [index |-> Append(ix.index, embedding_vector),
   id_map |-> [s \in DOMAIN ix.id_map \cup {Len(ix.index)} |->
                 IF s = Len(ix.index) THEN <<item_type, item_id>> ELSE ix.id_map[s]]]

EmptyIndex == [index |-> <<>>, id_map |-> <<>>]


\* ---------------------------------------------- Indexing Lifecycle Manager
\* EmbeddingService._ensure_schema: a no-op once _schema_ready is set; else
\* the migration, whose last step creates uq_embeddings_item, then the flag
ensure_schema(ready, uq, fails) ==
  IF ready THEN [raised |-> FALSE, ready |-> TRUE, uq |-> uq]
  ELSE IF fails THEN [raised |-> TRUE, ready |-> FALSE, uq |-> uq]
  ELSE [raised |-> FALSE, ready |-> TRUE, uq |-> TRUE]

\* the state an indexing call works on
ServiceState ==
  [index |-> index, id_map |-> id_map, rows |-> embeddings,
   ready |-> schema_ready, uq |-> unique_index, raised |-> FALSE]

\* the common body of add_expense and add_gst_claim: schema, embedding,
\* index append, durable upsert; fail names the step that raises
AddItem(st, item_type, item_id, text_value, fail) ==
  LET sch == ensure_schema(st.ready, st.uq, fail = "schema")
      vec == create_embedding(text_value)
      ix == add_vector_to_index([index |-> st.index, id_map |-> st.id_map],
                                item_type, item_id, vec)
      up == upsert_embedding_record(st.rows, sch.uq, item_type, item_id, text_value, vec)
  IN IF sch.raised
     THEN [st EXCEPT !.raised = TRUE]
     ELSE IF fail = "embed"
     THEN [st EXCEPT !.ready = sch.ready, !.uq = sch.uq, !.raised = TRUE]
     ELSE IF fail = "upsert" \/ up.raised
     THEN [st EXCEPT !.ready = sch.ready, !.uq = sch.uq, !.raised = TRUE,
                     !.index = ix.index, !.id_map = ix.id_map]
     ELSE [st EXCEPT !.ready = sch.ready, !.uq = sch.uq,
                     !.index = ix.index, !.id_map = ix.id_map, !.rows = up.rows]

\* EmbeddingService.add_expense
add_expense(st, expense_id, expense, fail) ==
  AddItem(st, "expense", expense_id, generate_text(expense), fail)

\* EmbeddingService.add_gst_claim
add_gst_claim(st, claim_id, claim, fail) ==
  AddItem(st, "gst_claim", claim_id, generate_gst_text(claim), fail)

IndexingFailures == {"none", "schema", "embed", "upsert"}

\* a failure that can happen in state st: the migration runs only while the
\* schema flag is unset
FailurePossible(fail) == fail = "schema" => ~schema_ready

\* a backfill that visits the expenses only
MissingExpenseKeys(rows, exps, claims) ==
  LET existing_map == { RowKey(rows[i]) : i \in 1..Len(rows) }
      es == SortedIds({ e \in DOMAIN exps : <<"expense", e>> \notin existing_map })
  IN [k \in 1..Len(es) |-> <<"expense", es[k]>>]

\* the keys _backfill_missing_embeddings finds missing, in the order it
\* visits them: expenses, then GST claims
MissingKeys(rows, exps, claims) ==
  LET existing_map == { RowKey(rows[i]) : i \in 1..Len(rows) }
      es == SortedIds({ e \in DOMAIN exps : <<"expense", e>> \notin existing_map })
      cs == SortedIds({ c \in DOMAIN claims : <<"gst_claim", c>> \notin existing_map })
  IN [k \in 1..Len(es) |-> <<"expense", es[k]>>] \o
     [k \in 1..Len(cs) |-> <<"gst_claim", cs[k]>>]

TextOfKey(key, exps, claims) ==
  IF key[1] = "expense" THEN generate_text(exps[key[2]])
  ELSE generate_gst_text(claims[key[2]])

\* the rows after the backfill loop has handled the first n missing keys
RECURSIVE BackfillRows(_, _, _, _, _, _)
BackfillRows(rows, uq, keys, exps, claims, n) ==
  IF n = 0 THEN rows
  ELSE LET before == BackfillRows(rows, uq, keys, exps, claims, n - 1)
           text_value == TextOfKey(keys[n], exps, claims)
       IN upsert_embedding_record(before, uq, keys[n][1], keys[n][2], text_value,
                                  create_embedding(text_value)).rows

\* EmbeddingService._backfill_missing_embeddings; fail_at = k > 0: the
\* embedding of the k-th missing record raises
backfill_missing_embeddings(rows, uq, exps, claims, fail_at) ==
  LET keys == MissingKeys(rows, exps, claims)
  IN IF fail_at = 0
     THEN [raised |-> FALSE, rows |-> BackfillRows(rows, uq, keys, exps, claims, Len(keys))]
     ELSE [raised |-> TRUE, rows |-> BackfillRows(rows, uq, keys, exps, claims, fail_at - 1)]

\* the load loop of load_from_db over the first n rows
RECURSIVE LoadRows(_, _, _)
LoadRows(ix, rows, n) ==
  IF n = 0 THEN ix
  ELSE add_vector_to_index(LoadRows(ix, rows, n - 1), rows[n].item_type,
                           rows[n].item_id, json_loads(rows[n].embedding_vector))

BadRows(rows) == { i \in 1..Len(rows) : ~json_ok(rows[i].embedding_vector) }

\* the load loop of load_from_db: every row is appended to what the index
\* already holds; json.loads raises on the first malformed row
Replay(ix, rows) ==
  IF BadRows(rows) = {}
  THEN [raised |-> FALSE, ix |-> LoadRows(ix, rows, Len(rows))]
  ELSE LET bad == CHOOSE i \in BadRows(rows) : \A j \in BadRows(rows) : i <= j
       IN [raised |-> TRUE, ix |-> LoadRows(ix, rows, bad - 1)]

\* EmbeddingService.load_from_db
\* a load that adds every stored row to the index twice
load_rows_doubled(st, exps, claims, fail) ==
  LET sch == ensure_schema(st.ready, st.uq, fail[1] = "schema")
      bf == backfill_missing_embeddings(st.rows, sch.uq, exps, claims,
                                        IF fail[1] = "backfill" THEN fail[2] ELSE 0)
      rp == Replay([index |-> st.index, id_map |-> st.id_map], bf.rows \o bf.rows)
  IN IF sch.raised THEN [st EXCEPT !.raised = TRUE]
     ELSE IF bf.raised
     THEN [st EXCEPT !.ready = sch.ready, !.uq = sch.uq, !.rows = bf.rows, !.raised = TRUE]
     ELSE [st EXCEPT !.ready = sch.ready, !.uq = sch.uq, !.rows = bf.rows,
                     !.index = rp.ix.index, !.id_map = rp.ix.id_map, !.raised = rp.raised]

\* fail = <<"none", 0>>, <<"schema", 0>>, <<"backfill", k>> or
\* <<"dimension", 0>>: the vectors are not of the dimension the index was
\* built with, and index.add raises on the first row before anything is added
load_from_db(st, exps, claims, fail) ==
  LET sch == ensure_schema(st.ready, st.uq, fail[1] = "schema")
      bf == backfill_missing_embeddings(st.rows, sch.uq, exps, claims,
                                        IF fail[1] = "backfill" THEN fail[2] ELSE 0)
      rp == IF fail[1] = "dimension" /\ bf.rows # <<>>
            THEN [raised |-> TRUE, ix |-> [index |-> st.index, id_map |-> st.id_map]]
            ELSE Replay([index |-> st.index, id_map |-> st.id_map], bf.rows)
  IN IF sch.raised
     THEN [st EXCEPT !.raised = TRUE]
     ELSE IF bf.raised
     THEN [st EXCEPT !.ready = sch.ready, !.uq = sch.uq, !.rows = bf.rows, !.raised = TRUE]
     ELSE [st EXCEPT !.ready = sch.ready, !.uq = sch.uq, !.rows = bf.rows,
                     !.index = rp.ix.index, !.id_map = rp.ix.id_map,
                     !.raised = rp.raised]

\* <<"model", 0>>: SentenceTransformer(...) raises in EmbeddingService.__init__
StartupFailures ==
  {<<"none", 0>>, <<"schema", 0>>, <<"model", 0>>, <<"dimension", 0>>} \cup
  { <<"backfill", k>> : k \in 1..(MaxExpenses + MaxClaims) }

\* the service is constructed once, at the first get_embedding_service()
StartupFailurePossible(fail) ==
  /\ fail[1] = "backfill" => fail[2] <= Len(MissingKeys(embeddings, expenses, gst_claims))
  /\ fail[1] = "model" => pc = "boot"

Commit(st) ==
  /\ index' = st.index
  /\ id_map' = st.id_map
  /\ embeddings' = st.rows
  /\ schema_ready' = st.ready
  /\ unique_index' = st.uq

\* main.startup_event: get_embedding_service() outside the try (an exception
\* of the constructor leaves the hook and the server does not start), then
\* load_from_db under try/except (an exception is logged as a warning)
startup_event(fail) ==
  /\ pc = "boot"
  /\ StartupFailurePossible(fail)
  /\ IF fail[1] = "model"
     THEN /\ pc' = "aborted"
          /\ startup_log' = [outcome |-> "aborted", backfilled |-> 0, loaded |-> 0,
                             error |-> "model"]
          /\ UNCHANGED <<embeddings, unique_index, service_vars, load_calls>>
     ELSE /\ LET st == load_from_db(ServiceState, expenses, gst_claims, fail)
                 missing == Len(MissingKeys(embeddings, expenses, gst_claims))
             IN /\ Commit(st)
                /\ startup_log' =
                     [outcome |-> IF st.raised THEN "warning" ELSE "ready",
                      backfilled |-> IF fail[1] \in {"none", "dimension"} THEN missing ELSE 0,
                      loaded |-> IF st.raised THEN 0 ELSE Len(st.rows),
                      error |-> IF st.raised THEN fail[1] ELSE "none"]
          /\ load_calls' = load_calls + 1
          /\ pc' = "serving"
  /\ UNCHANGED <<expenses, next_expense_id, gst_claims, next_claim_id, response, workers,
                 active_connections>>


\* ------------------------------------------------------- record mutation
\* the Expense row ExpenseService.create_expense builds from the payload
ExpenseRow(data) ==
  [user_id |-> data.user_id, month |-> data.month, year |-> data.year,
   amount |-> data.amount, label |-> data.label, item |-> data.item,
   category |-> data.category, description |-> data.description,
   gst_eligible |-> data.gst_eligible,
   gst_amount |-> IF data.gst_eligible THEN (data.amount * 18) \div 100 ELSE 0,
   status |-> "pending"]

\* the GSTClaim row GSTService.create_claim_with_file builds
ClaimRow(data, created_at) ==
  [user_id |-> data.user_id, vendor |-> data.vendor, amount |-> data.amount,
   category |-> <<"other">>, gst_rate |-> data.gst_rate,
   gst_amount |-> (data.amount * data.gst_rate) \div 100,
   status |-> "pending", created_at |-> created_at]

Insert(table, id, row) ==
  [i \in DOMAIN table \cup {id} |-> IF i = id THEN row ELSE table[i]]

Delete(table, id) == [i \in DOMAIN table \ {id} |-> table[i]]

\* ConnectionManager.broadcast that leaves the failed connections open
broadcast_keeps_failed(connections, send_fail) ==
  [active |-> connections,
   delivered |-> connections \ send_fail,
   failed |-> connections \cap send_fail]

\* ConnectionManager.broadcast: send to every open connection; a send that
\* raises (the connections in send_fail) is logged and the connection is
\* disconnected after the loop
broadcast(connections, send_fail) ==
  [active |-> connections \ send_fail,
   delivered |-> connections \ send_fail,
   failed |-> connections \cap send_fail]

\* the handler raised before it came to broadcast
NoBroadcast(connections) ==
  [active |-> connections, delivered |-> {}, failed |-> {}]

\* routes.expenses.create_expense around ExpenseService.create_expense:
\* commit the row, index it, broadcast; any exception becomes HTTP 500
create_expense(data, fail, send_fail) ==
  /\ pc = "serving"
  /\ response = NoResponse
  /\ next_expense_id <= MaxExpenses
  /\ FailurePossible(fail)
  /\ send_fail \subseteq active_connections
  /\ LET id == next_expense_id
         row == ExpenseRow(data)
         st == add_expense(ServiceState, id, row, fail)
         bc == IF st.raised THEN NoBroadcast(active_connections)
               ELSE broadcast(active_connections, send_fail)
     IN /\ expenses' = Insert(expenses, id, row)
        /\ next_expense_id' = id + 1
        /\ Commit(st)
        /\ active_connections' = bc.active
        /\ response' = [op |-> "create_expense", id |-> id,
                        status |-> IF st.raised THEN 500 ELSE 200,
                        indexing_failed |-> st.raised,
                        logged |-> IF st.raised THEN "error" ELSE "info",
                        notified |-> bc.delivered, send_failed |-> bc.failed]
  /\ UNCHANGED <<gst_claims, next_claim_id, pc, load_calls, startup_log, workers>>

\* routes.gst.create_claim around GSTService.create_claim_with_file and
\* _create_embedding_for_claim, which catches and prints indexing errors
create_claim(data, fail, send_fail) ==
  /\ pc = "serving"
  /\ response = NoResponse
  /\ next_claim_id <= MaxClaims
  /\ FailurePossible(fail)
  /\ send_fail \subseteq active_connections
  /\ LET id == next_claim_id
         row == ClaimRow(data, [month |-> NowMonth, year |-> NowYear])
         st == add_gst_claim(ServiceState, id, row, fail)
         bc == broadcast(active_connections, send_fail)
     IN /\ gst_claims' = Insert(gst_claims, id, row)
        /\ next_claim_id' = id + 1
        /\ Commit(st)
        /\ active_connections' = bc.active
        /\ response' = [op |-> "create_claim", id |-> id, status |-> 200,
                        indexing_failed |-> st.raised,
                        logged |-> IF st.raised THEN "warning" ELSE "info",
                        notified |-> bc.delivered, send_failed |-> bc.failed]
  /\ UNCHANGED <<expenses, next_expense_id, pc, load_calls, startup_log, workers>>

\* ConnectionManager.connect: accept the websocket and append it
connect(websocket) ==
  /\ pc = "serving"
  /\ websocket \notin active_connections
  /\ active_connections' = active_connections \cup {websocket}
  /\ UNCHANGED <<db_vars, service_vars, pc, load_calls, startup_log, response, workers>>

\* ConnectionManager.disconnect, called when the client has gone
disconnect(websocket) ==
  /\ pc = "serving"
  /\ websocket \in active_connections
  /\ active_connections' = active_connections \ {websocket}
  /\ UNCHANGED <<db_vars, service_vars, pc, load_calls, startup_log, response, workers>>

\* routes.expenses.delete_expense: the row goes, and with it (cascade on
\* Expense.embedding) its embeddings row; the index is not touched
delete_expense(id) ==
  /\ pc = "serving"
  /\ response = NoResponse
  /\ id \in DOMAIN expenses
  /\ expenses' = Delete(expenses, id)
  /\ embeddings' = SelectSeq(embeddings, LAMBDA r : RowKey(r) # <<"expense", id>>)
  /\ response' = [op |-> "delete_expense", id |-> id, status |-> 200]
  /\ UNCHANGED <<next_expense_id, gst_claims, next_claim_id, unique_index,
                 index, id_map, schema_ready, pc, load_calls, startup_log, workers,
                 active_connections>>

\* routes.gst.delete_claim: the claim row goes; its embeddings row stays
delete_claim(id) ==
  /\ pc = "serving"
  /\ response = NoResponse
  /\ id \in DOMAIN gst_claims
  /\ gst_claims' = Delete(gst_claims, id)
  /\ response' = [op |-> "delete_claim", id |-> id, status |-> 200]
  /\ UNCHANGED <<expenses, next_expense_id, next_claim_id, embeddings, unique_index,
                 index, id_map, schema_ready, pc, load_calls, startup_log, workers,
                 active_connections>>

\* the response of the handler leaves for the client; the event loop
\* takes the next request
send_response ==
  /\ response # NoResponse
  /\ response' = NoResponse
  /\ UNCHANGED <<db_vars, service_vars, process_vars, workers>>

\* ----------------------------------------------------------- string tables
\* str.lower() on the tokens of the queries
Lower(tok) ==
  CASE tok = "Gaurav" -> "gaurav"
    [] tok = "Chocolate" -> "chocolate"
    [] tok = "GST" -> "gst"
    [] tok = "HI" -> "hi"
    [] OTHER -> tok
\* tokens matching [A-Z][a-z]+
CapitalizedTokens == {"Gaurav", "Chocolate"}
\* tokens made of letters only
AlphaTokens == {"Chocolate", "Gaurav", "cake", "chocolate", "december", "expense", "for", "gaurav", "gst", "in", "me", "november", "pertol", "petrol", "show", "tax", "travel"}
\* len() of a word
StrLen(w) ==
  CASE w \in {"12", "in", "me"} -> 2
    [] w \in {"GST", "bus", "cab", "for", "gas", "gst", "ola", "sum", "tax", "vat"} -> 3
    [] w \in {"2024", "acme", "bill", "cafe", "cake", "cost", "food", "fuel", "gift", "rate", "rent", "shop", "show", "taxi", "team", "toll", "uber"} -> 4
    [] w \in {"claim", "hotel", "lunch", "metro", "movie", "other", "phone", "price", "priya", "total", "train", "water"} -> 5
    [] w \in {"Gaurav", "amount", "cinema", "coffee", "diesel", "dinner", "doctor", "flight", "gaurav", "mobile", "office", "pertol", "petrol", "repair", "salary", "snacks", "ticket", "travel"} -> 6
    [] w \in {"expense", "invoice", "license", "medical", "meeting", "parking", "petrole", "premium", "receipt", "seminar", "service", "utility"} -> 7
    [] w \in {"birthday", "december", "donation", "eligible", "expenses", "hospital", "internet", "medicine", "november", "shopping", "software", "supplies", "training", "workshop"} -> 8
    [] w \in {"Chocolate", "breakfast", "chocolate", "equipment", "groceries", "gst-claim", "insurance", "transport"} -> 9
    [] w \in {"conference", "restaurant", "stationery"} -> 10
    [] w \in {"electricity", "maintenance"} -> 11
    [] w \in {"gst-eligible", "subscription"} -> 12
    [] w \in {"entertainment"} -> 13
\* <<hay, needle>>: needle in hay, for distinct words
ContainsPairs ==
  { <<"acme", "me">>, <<"chocolate", "ola">>, <<"cinema", "in">>, <<"december", "dec">>,
    <<"dinner", "in">>, <<"doctor", "oct">>, <<"entertainment", "in">>, <<"entertainment", "me">>,
    <<"equipment", "me">>, <<"expenses", "expense">>, <<"gst-claim", "claim">>, <<"gst-claim", "gst">>,
    <<"gst-eligible", "eligible">>, <<"gst-eligible", "gst">>, <<"insurance", "in">>, <<"internet", "in">>,
    <<"invoice", "in">>, <<"maintenance", "in">>, <<"medical", "me">>, <<"medicine", "in">>,
    <<"medicine", "me">>, <<"meeting", "in">>, <<"meeting", "me">>, <<"metro", "me">>,
    <<"november", "nov">>, <<"parking", "in">>, <<"petrole", "petrol">>, <<"seminar", "in">>,
    <<"shopping", "in">>, <<"shopping", "shop">>, <<"taxi", "tax">>, <<"train", "in">>,
    <<"training", "in">>, <<"training", "train">>, <<"workshop", "shop">> }
\* <<hay, needle>>: hay.startswith(needle), for distinct words
StartsWithPairs ==
  { <<"december", "dec">>, <<"expenses", "expense">>, <<"gst-claim", "gst">>, <<"gst-eligible", "gst">>,
    <<"insurance", "in">>, <<"internet", "in">>, <<"invoice", "in">>, <<"medical", "me">>,
    <<"medicine", "me">>, <<"meeting", "me">>, <<"metro", "me">>, <<"november", "nov">>,
    <<"petrole", "petrol">>, <<"shopping", "shop">>, <<"taxi", "tax">>, <<"training", "train">> }
\* <<hay, needle>>: hay.endswith(needle), for distinct words
EndsWithPairs ==
  { <<"acme", "me">>, <<"gst-claim", "claim">>, <<"gst-eligible", "eligible">>, <<"train", "in">>,
    <<"workshop", "shop">> }
\* SequenceMatcher(None, a, b).ratio() in thousandths, where it reaches 0.65
RatioTable ==
  { <<<<"acme">>, <<"me">>, 666>>, <<<<"cafe">>, <<"cake">>, 750>>,
    <<<<"cake">>, <<"cafe">>, 750>>, <<<<"chocolate">>, <<"chocolate", "cake">>, 782>>,
    <<<<"chocolate", "cake">>, <<"chocolate">>, 782>>, <<<<"expense">>, <<"expenses">>, 933>>,
    <<<<"expenses">>, <<"expense">>, 933>>, <<<<"gas">>, <<"gst">>, 666>>,
    <<<<"gst">>, <<"gas">>, 666>>, <<<<"me">>, <<"acme">>, 666>>,
    <<<<"metro">>, <<"petrol">>, 727>>, <<<<"metro">>, <<"petrole">>, 666>>,
    <<<<"pertol">>, <<"petrol">>, 833>>, <<<<"pertol">>, <<"petrole">>, 769>>,
    <<<<"petrol">>, <<"metro">>, 727>>, <<<<"petrol">>, <<"pertol">>, 833>>,
    <<<<"petrol">>, <<"petrole">>, 923>>, <<<<"petrole">>, <<"metro">>, 666>>,
    <<<<"petrole">>, <<"pertol">>, 769>>, <<<<"petrole">>, <<"petrol">>, 923>>,
    <<<<"shop">>, <<"show">>, 750>>, <<<<"show">>, <<"shop">>, 750>>,
    <<<<"tax">>, <<"taxi">>, 857>>, <<<<"taxi">>, <<"tax">>, 857>>,
    <<<<"taxi">>, <<"train">>, 666>> }
\* the vocabulary entries in string order (ties of get_close_matches)
StringOrder ==
  << <<"GST">>, <<"GST", "amount">>, <<"GST", "eligible">>, <<"GST", "rate">>, <<"GST", "tax">>,
     <<"GST", "vat">>, <<"amount">>, <<"bill">>, <<"breakfast">>, <<"bus">>,
     <<"cab">>, <<"cafe">>, <<"cake">>, <<"chocolate", "cake">>, <<"cinema">>,
     <<"coffee">>, <<"conference">>, <<"cost">>, <<"diesel">>, <<"dinner">>,
     <<"doctor">>, <<"donation">>, <<"electricity">>, <<"entertainment">>, <<"equipment">>,
     <<"expense">>, <<"expenses">>, <<"flight">>, <<"food">>, <<"fuel">>,
     <<"gas">>, <<"gift">>, <<"groceries">>, <<"gst">>, <<"hospital">>,
     <<"hotel">>, <<"insurance">>, <<"internet">>, <<"invoice">>, <<"license">>,
     <<"lunch">>, <<"maintenance">>, <<"medical">>, <<"medicine">>, <<"meeting">>,
     <<"metro">>, <<"mobile">>, <<"movie">>, <<"office">>, <<"ola">>,
     <<"parking">>, <<"pertol">>, <<"petrol">>, <<"petrole">>, <<"phone">>,
     <<"premium">>, <<"price">>, <<"rate">>, <<"receipt">>, <<"rent">>,
     <<"repair">>, <<"restaurant">>, <<"salary">>, <<"seminar">>, <<"service">>,
     <<"shopping">>, <<"snacks">>, <<"software">>, <<"stationery">>, <<"subscription">>,
     <<"sum">>, <<"supplies">>, <<"tax">>, <<"taxi">>, <<"team", "lunch">>,
     <<"ticket">>, <<"toll">>, <<"total">>, <<"train">>, <<"training">>,
     <<"transport">>, <<"travel">>, <<"uber">>, <<"utility">>, <<"vat">>,
     <<"water">>, <<"workshop">> >>
EXPENSE_VOCABULARY ==
  { <<"petrol">>, <<"diesel">>, <<"food">>, <<"lunch">>, <<"dinner">>,
    <<"breakfast">>, <<"travel">>, <<"taxi">>, <<"cab">>, <<"uber">>,
    <<"ola">>, <<"hotel">>, <<"transport">>, <<"fuel">>, <<"gas">>,
    <<"restaurant">>, <<"cafe">>, <<"coffee">>, <<"snacks">>, <<"groceries">>,
    <<"stationery">>, <<"office">>, <<"supplies">>, <<"equipment">>, <<"maintenance">>,
    <<"repair">>, <<"service">>, <<"internet">>, <<"phone">>, <<"mobile">>,
    <<"utility">>, <<"electricity">>, <<"water">>, <<"rent">>, <<"salary">>,
    <<"medical">>, <<"medicine">>, <<"doctor">>, <<"hospital">>, <<"insurance">>,
    <<"premium">>, <<"subscription">>, <<"software">>, <<"license">>, <<"training">>,
    <<"workshop">>, <<"seminar">>, <<"conference">>, <<"meeting">>, <<"entertainment">>,
    <<"movie">>, <<"cinema">>, <<"parking">>, <<"toll">>, <<"ticket">>,
    <<"flight">>, <<"train">>, <<"bus">>, <<"metro">>, <<"shopping">>,
    <<"gift">>, <<"donation">>, <<"pertol">>, <<"petrole">>, <<"GST">>,
    <<"GST", "eligible">>, <<"GST", "rate">>, <<"GST", "amount">>, <<"GST", "tax">>, <<"GST", "vat">>,
    <<"gst">>, <<"tax">>, <<"vat">>, <<"rate">>, <<"amount">>,
    <<"cost">>, <<"price">>, <<"bill">>, <<"invoice">>, <<"receipt">>,
    <<"total">>, <<"sum">>, <<"expense">>, <<"expenses">> }

Contains(hay, needle) == hay = needle \/ <<hay, needle>> \in ContainsPairs
StartsWith(hay, needle) == hay = needle \/ <<hay, needle>> \in StartsWithPairs
EndsWith(hay, needle) == hay = needle \/ <<hay, needle>> \in EndsWithPairs

Ratio(a, b) ==
  IF a = b THEN 1000
  ELSE LET hits == { t \in RatioTable : t[1] = a /\ t[2] = b }
       IN IF hits = {} THEN 0 ELSE (CHOOSE t \in hits : TRUE)[3]

LowerSeq(s) == [i \in 1..Len(s) |-> Lower(s[i])]

\* needle in text, both lower-case and joined by single spaces
InText(needle, text) ==
  /\ Len(needle) > 0
  /\ \E i \in 1..(Len(text) - Len(needle) + 1) :
       IF Len(needle) = 1
       THEN Contains(text[i], needle[1])
       ELSE /\ EndsWith(text[i], needle[1])
            /\ StartsWith(text[i + Len(needle) - 1], needle[Len(needle)])
            /\ \A j \in 2..(Len(needle) - 1) : text[i + j - 1] = needle[j]

\* re.findall(r'\b\w+\b', tok) of one blank-separated token of a text
TokenWords(tok) ==
  CASE tok = "gst-eligible" -> {"gst", "eligible"}
    [] tok = "gst-claim" -> {"gst", "claim"}
    [] OTHER -> {tok}

WordsOf(text) == UNION { TokenWords(text[i]) : i \in 1..Len(text) }

\* ----------------------------------------------------- Query Normalizer
\* a query is the sequence of its word tokens, in the case it was typed in;
\* it holds no quotes and no punctuation

\* SearchService.TYPO_CORRECTIONS
\* a correction map with no entry
NoTypoCorrections == [w \in {} |-> "petrol"]

TYPO_CORRECTIONS == [w \in {"pertol", "petrole", "petrol"} |-> "petrol"]

OrderOf(entry) == CHOOSE i \in 1..Len(StringOrder) : StringOrder[i] = entry

\* difflib.get_close_matches(word, vocabulary, n=1, cutoff): the entry of
\* the highest ratio, the greater string on a tie; <<>> when there is none
close_matches(word, vocabulary, cutoff) ==
  LET near == { t[1] : t \in { u \in RatioTable : u[2] = <<word>> /\ u[3] >= cutoff } }
      cands == (near \cup {<<word>>}) \cap vocabulary
  IN IF cands = {} THEN <<>>
     ELSE CHOOSE e \in cands : \A f \in cands :
            \/ Ratio(e, <<word>>) > Ratio(f, <<word>>)
            \/ Ratio(e, <<word>>) = Ratio(f, <<word>>) /\ OrderOf(e) >= OrderOf(f)

\* the loop over the cutoffs 0.75, 0.70, 0.65 of _correct_spelling
RECURSIVE fuzzy_correction(_, _, _)
fuzzy_correction(word, vocabulary, cutoffs) ==
  IF cutoffs = <<>> THEN <<>>
  ELSE LET m == close_matches(word, vocabulary, Head(cutoffs))
       IN IF m # <<>> /\ Ratio(<<word>>, m) >= 700 THEN m
          ELSE fuzzy_correction(word, vocabulary, Tail(cutoffs))

\* the substring pass of _correct_spelling for words longer than 4
substring_correction(word, vocabulary) ==
  LET cands == { e \in vocabulary :
                   /\ InText(<<word>>, e) \/ (Len(e) = 1 /\ Contains(word, e[1]))
                   /\ Ratio(<<word>>, e) >= 700 }
  IN IF StrLen(word) > 4 /\ cands # {}
     THEN CHOOSE e \in cands : \A f \in cands : OrderOf(e) <= OrderOf(f)
     ELSE <<>>

\* SearchService._correct_spelling; word is lower-case already
correct_spelling(word, vocabulary) ==
  LET fuzzy == fuzzy_correction(word, vocabulary, <<750, 700, 650>>)
      within == substring_correction(word, vocabulary)
  IN IF StrLen(word) < 2 THEN <<word>>
     ELSE IF word \in DOMAIN TYPO_CORRECTIONS THEN <<TYPO_CORRECTIONS[word]>>
     ELSE IF <<word>> \in vocabulary THEN <<word>>
     ELSE IF fuzzy # <<>> THEN fuzzy
     ELSE IF within # <<>> THEN within
     ELSE <<word>>

\* SearchService._normalize_query: the corrected words of the query
normalize_query(query) ==
  [i \in 1..Len(query) |-> correct_spelling(Lower(query[i]), EXPENSE_VOCABULARY)]

date_words ==
  {"jan", "january", "feb", "february", "mar", "march", "apr", "april",
   "may", "jun", "june", "jul", "july", "aug", "august", "sep", "september",
   "oct", "october", "nov", "november", "dec", "december"}

stopwords ==
  {"what", "is", "are", "was", "were", "the", "a", "an", "of",
   "to", "on", "at", "with", "by", "from", "about", "how", "much",
   "did", "i", "spend", "show", "me", "find", "search", "list"}

AlphaWord(tok, n) == tok \in AlphaTokens /\ StrLen(tok) >= n

\* len() of words joined by single spaces
RECURSIVE JoinedLen(_)
JoinedLen(ws) ==
  IF ws = <<>> THEN 0
  ELSE IF Len(ws) = 1 THEN StrLen(ws[1])
  ELSE StrLen(ws[1]) + 1 + JoinedLen(Tail(ws))

\* findall of person_pattern: "for" and one or two words of letters
RECURSIVE person_pattern(_, _)
person_pattern(query, i) ==
  IF i >= Len(query) THEN {}
  ELSE IF Lower(query[i]) = "for" /\ AlphaWord(query[i + 1], 2)
       THEN IF i + 2 <= Len(query) /\ AlphaWord(query[i + 2], 2)
            THEN {<<query[i + 1], query[i + 2]>>} \cup person_pattern(query, i + 3)
            ELSE {<<query[i + 1]>>} \cup person_pattern(query, i + 2)
       ELSE person_pattern(query, i + 1)

\* findall of for_lower_pattern on the lower-case query
RECURSIVE for_lower_pattern(_, _)
for_lower_pattern(query, i) ==
  IF i >= Len(query) THEN {}
  ELSE IF Lower(query[i]) = "for" /\ AlphaWord(Lower(query[i + 1]), 3)
       THEN {Lower(query[i + 1])} \cup for_lower_pattern(query, i + 2)
       ELSE for_lower_pattern(query, i + 1)

\* person_names of _extract_keywords, each name lower-cased (it is only
\* ever compared in lower case) and split into its words
person_names_of(query) ==
  { LowerSeq(m) : m \in { n \in person_pattern(query, 1) : JoinedLen(n) > 2 } }
  \cup { <<Lower(query[i])>> : i \in { j \in 1..Len(query) :
           /\ query[j] \in CapitalizedTokens
           /\ Lower(query[j]) \notin date_words
           /\ Lower(query[j]) \notin stopwords
           /\ StrLen(query[j]) > 2 } }
  \cup { <<m>> : m \in { n \in for_lower_pattern(query, 1) :
           n \notin date_words /\ n \notin stopwords } }

\* the words kept as keywords, before correction
keyword_words(query) ==
  LET names == person_names_of(query)
  IN SelectSeq(LowerSeq(query), LAMBDA w :
       /\ w \notin date_words
       /\ w \notin stopwords
       /\ StrLen(w) > 2
       /\ <<w>> \notin names)

\* the groups of r'\b(.+?)\s+expense\b': the words before each "expense"
RECURSIVE before_expense(_, _, _)
before_expense(words, start, i) ==
  IF i > Len(words) THEN {}
  ELSE IF words[i] = "expense" /\ i > start
       THEN {SubSeq(words, start, i - 1)} \cup before_expense(words, i + 1, i + 1)
       ELSE before_expense(words, start, i + 1)

\* the groups of r'\bexpense\s+(.+?)\b': the one word after each "expense"
RECURSIVE after_expense(_, _)
after_expense(words, i) ==
  IF i >= Len(words) THEN {}
  ELSE IF words[i] = "expense"
       THEN {<<words[i + 1]>>} \cup after_expense(words, i + 2)
       ELSE after_expense(words, i + 1)

\* phrases of _extract_keywords
phrases_of(query) ==
  LET clean(m) == SelectSeq(m, LAMBDA w : w \notin stopwords /\ w \notin date_words)
      groups == before_expense(LowerSeq(query), 1, 1) \cup after_expense(LowerSeq(query), 1)
  IN { clean(m) : m \in { g \in groups : Len(clean(g)) >= 2 } }

\* the vocabulary _extract_keywords builds: the static one plus the
\* categories, labels, items and item words of the stored expenses
vocabulary_of(exps) ==
  EXPENSE_VOCABULARY
  \cup { exps[e].category : e \in DOMAIN exps }
  \cup { exps[e].label : e \in DOMAIN exps }
  \cup { exps[e].item : e \in DOMAIN exps }
  \cup UNION { { <<exps[e].item[k]>> : k \in 1..Len(exps[e].item) } : e \in DOMAIN exps }


\* 'keywords' of _extract_keywords: the kept words after correction
\* against the augmented vocabulary
keywords_of(query, exps) ==
  LET words == keyword_words(query)
      vocabulary == vocabulary_of(exps)
  IN [i \in 1..Len(words) |-> correct_spelling(words[i], vocabulary)]

\* 'person_names_from_db' of _extract_keywords
person_names_from_db == { full_name(u) : u \in Users }

\* the keys of month_map in _extract_month_from_query, in dict order
month_map ==
  << <<"jan", 1>>, <<"january", 1>>, <<"feb", 2>>, <<"february", 2>>,
     <<"mar", 3>>, <<"march", 3>>, <<"apr", 4>>, <<"april", 4>>, <<"may", 5>>,
     <<"jun", 6>>, <<"june", 6>>, <<"jul", 7>>, <<"july", 7>>,
     <<"aug", 8>>, <<"august", 8>>, <<"sep", 9>>, <<"september", 9>>,
     <<"oct", 10>>, <<"october", 10>>, <<"nov", 11>>, <<"november", 11>>,
     <<"dec", 12>>, <<"december", 12>> >>

InQuery(query, needle) == \E i \in 1..Len(query) : Contains(Lower(query[i]), needle)

\* tokens matching 1[0-2]|[1-9], and tokens matching 20\d{2}
MonthNumber(tok) == CASE tok = "12" -> 12 [] OTHER -> 0
YearNumber(tok) == CASE tok = "2024" -> 2024 [] OTHER -> 0

\* SearchService._extract_month_from_query; 0 stands for None
extract_month_from_query(query) ==
  LET named == { k \in 1..Len(month_map) : InQuery(query, month_map[k][1]) }
      nums == { i \in 1..Len(query) : MonthNumber(query[i]) # 0 }
  IN IF named # {}
     THEN month_map[CHOOSE k \in named : \A j \in named : k <= j][2]
     ELSE IF nums # {}
     THEN MonthNumber(query[CHOOSE i \in nums : \A j \in nums : i <= j])
     ELSE 0

\* SearchService._extract_year_from_query
extract_year_from_query(query) ==
  LET years == { i \in 1..Len(query) : YearNumber(query[i]) # 0 }
  IN IF years # {}
     THEN YearNumber(query[CHOOSE i \in years : \A j \in years : i <= j])
     ELSE NowYear

excluded_words ==
  {"expense", "expenses", "in", "nov", "november", "dec", "december",
   "jan", "january", "feb", "february", "mar", "march", "apr", "april",
   "may", "jun", "june", "jul", "july", "aug", "august", "sep", "september",
   "oct", "october", "for", "the", "a", "an", "at", "of", "on", "with", "from"}

\* specific_item_keywords of lines 270-288, lower-cased
specific_item_keywords_of(keywords) ==
  { LowerSeq(keywords[i]) : i \in { j \in 1..Len(keywords) :
      /\ ~(Len(keywords[j]) = 1 /\ Lower(keywords[j][1]) \in excluded_words)
      /\ JoinedLen(keywords[j]) > 2 } }

\* the Query Context of lines 254-288, given the keywords
context_of(query, keywords) ==
  [keywords |-> keywords,
   person_names |-> person_names_of(query),
   phrases |-> phrases_of(query),
   month |-> extract_month_from_query(query),
   year |-> extract_year_from_query(query),
   is_gst_query |-> \E term \in {"gst", "tax", "vat"} : InQuery(query, term),
   has_specific_item_keyword |-> specific_item_keywords_of(keywords) # {},
   specific_item_keywords |-> specific_item_keywords_of(keywords)]

\* the Query Context semantic_search works with (lines 254-288)
QueryContext(query, exps) == context_of(query, keywords_of(query, exps))

\* ------------------------------------------------ Vector Index Store: search
\* similarities in hundredths: one below every floor, one between the
\* floors 0.4 and 0.7, one above
SimLevels == {20, 50, 80}

\* EmbeddingService.search: the k nearest slots, nearest first (slots of equal
\* distance in slot order), as <<item_type, item_id, similarity>>; sim gives
\* 1 / (1 + distance) of the query embedding to each stored vector
RECURSIVE NearestFirst(_, _, _)
NearestFirst(slots, ix, sim) ==
  IF slots = {} THEN <<>>
  ELSE LET best == CHOOSE s \in slots : \A t \in slots :
                     \/ sim[ix.index[s + 1]] > sim[ix.index[t + 1]]
                     \/ sim[ix.index[s + 1]] = sim[ix.index[t + 1]] /\ s <= t
       IN <<best>> \o NearestFirst(slots \ {best}, ix, sim)

search(ix, sim, k) ==
  LET order == NearestFirst(0..(Len(ix.index) - 1), ix, sim)
      top == SubSeq(order, 1, IF k < Len(order) THEN k ELSE Len(order))
      hits == SelectSeq(top, LAMBDA s : s \in DOMAIN ix.id_map)
  IN [n \in 1..Len(hits) |->
       <<ix.id_map[hits[n]][1], ix.id_map[hits[n]][2], sim[ix.index[hits[n] + 1]]>>]

\* ------------------------------------------- Ranking & Filtering Engine
Dropped == [admitted |-> FALSE]

\* expense_text of process_expense_result
expense_text(expense) ==
  expense.label \o expense.item \o expense.category \o expense.description
  \o full_name(expense.user_id)
  \o (IF expense.gst_eligible \/ expense.gst_amount > 0
      THEN <<"gst", "tax", "gst-eligible">> ELSE <<>>)

person_name_match(ctx, text, owner_name) ==
  \E p \in ctx.person_names :
    \/ InText(p, text)
    \/ /\ \E db_name \in person_names_from_db : InText(p, db_name) \/ InText(db_name, p)
       /\ InText(p, owner_name)

phrase_match_expense(ctx, text) ==
  \E ph \in ctx.phrases :
    /\ InText(ph, text)
    /\ \A k \in 1..Len(ph) : \E w \in WordsOf(text) : Contains(w, ph[k]) \/ Contains(ph[k], w)

keyword_match_expense(ctx, text) ==
  \E k \in 1..Len(ctx.keywords) :
    \/ InText(ctx.keywords[k], text)
    \/ Len(ctx.keywords[k]) = 1 /\ ctx.keywords[k][1] \in WordsOf(text)
    \/ \E w \in WordsOf(text) : Ratio(ctx.keywords[k], <<w>>) >= 700

\* the specific-item test of lines 400-412 on label and item
keyword_found_in_expense(ctx, expense) ==
  \E kw \in ctx.specific_item_keywords :
    InText(kw, expense.label) \/ InText(kw, expense.item)

\* the date test of lines 414-424 as the code nests it: the else branch
\* belongs to "if month and expense.date"
expense_date_dropped(ctx, expense) == ctx.month = 0

\* the greatest of the boosts that apply (lines 383-391, 407, 418), in tenths
match_score_boost(person_named, phrase, keyword, gst_match, exact, in_month) ==
  LET boosts == {10}
                \cup (IF person_named THEN {15} ELSE {})
                \cup (IF phrase THEN {14} ELSE {})
                \cup (IF keyword \/ gst_match THEN {13} ELSE {})
                \cup (IF exact THEN {20} ELSE {})
                \cup (IF in_month THEN {12} ELSE {})
  IN CHOOSE b \in boosts : \A c \in boosts : b >= c

\* no person name, phrase or keyword in the query, and no tax query (line 431)
no_hints(ctx) ==
  ctx.person_names = {} /\ ctx.phrases = {} /\ ctx.keywords = <<>> /\ ~ctx.is_gst_query

\* the similarity floors of lines 426-437
expense_below_floor(ctx, exact, similarity_score) ==
  /\ ~exact
  /\ IF no_hints(ctx) THEN similarity_score < 30 ELSE similarity_score < 40

\* lines 383-459 of process_expense_result, given what matched
expense_outcome(ctx, id, expense, similarity_score, person, phrase, keyword, exact) ==
  LET gst_match == ctx.is_gst_query /\ (expense.gst_eligible \/ expense.gst_amount > 0)
      in_month == ctx.month # 0 /\ expense.month = ctx.month /\ expense.year = ctx.year
      boost == IF ~exact /\ no_hints(ctx) THEN 10
               ELSE match_score_boost(ctx.person_names # {}, phrase, keyword,
                                      gst_match, exact, in_month)
  IN IF ctx.has_specific_item_keyword /\ ~exact THEN Dropped
     ELSE IF expense_date_dropped(ctx, expense) THEN Dropped
     ELSE IF expense_below_floor(ctx, exact, similarity_score) THEN Dropped
     ELSE [admitted |-> TRUE, type |-> "expense", id |-> id,
           label |-> expense.label, item |-> expense.item,
           amount |-> expense.amount, category |-> expense.category,
           status |-> expense.status,
           similarity_score |-> similarity_score * boost,
           similarity |-> similarity_score, boost |-> boost,
           bucket |-> IF keyword \/ phrase \/ person \/ gst_match
                      THEN "date_keyword" ELSE "results"]

\* a tax test that lets every expense through
gst_never_dropped(ctx, expense) == FALSE

\* the tax test of lines 328-334: on a tax query an expense that is neither
\* flagged eligible nor carries a tax amount is dropped
gst_dropped(ctx, expense) ==
  ctx.is_gst_query /\ ~(expense.gst_eligible \/ expense.gst_amount > 0)

\* SearchService.semantic_search.process_expense_result
process_expense_result(ctx, id, expense, similarity_score) ==
  IF gst_dropped(ctx, expense) THEN Dropped
  ELSE expense_outcome(ctx, id, expense, similarity_score,
         ctx.person_names # {}
           /\ person_name_match(ctx, expense_text(expense), full_name(expense.user_id)),
         phrase_match_expense(ctx, expense_text(expense)),
         keyword_match_expense(ctx, expense_text(expense)),
         ctx.has_specific_item_keyword /\ keyword_found_in_expense(ctx, expense))

\* gst_text of the GST branch of semantic_search
gst_text(claim) ==
  claim.vendor \o claim.category
  \o <<"gst", "tax", "vat", "gst-eligible", "gst-claim">>
  \o full_name(claim.user_id)

\* the date test of lines 552-565: a claim of another month passes at 0.7
gst_date_dropped(ctx, claim, similarity_score) ==
  /\ ctx.month # 0
  /\ ~(claim.created_at.month = ctx.month /\ claim.created_at.year = ctx.year)
  /\ similarity_score < 70

\* the GST claim branch of the candidate loop (lines 493-587)
process_gst_result(ctx, id, claim, similarity_score) ==
  LET text == gst_text(claim)
      phrase_match == \E ph \in ctx.phrases : InText(ph, text)
      keyword_match ==
        \/ \E k \in 1..Len(ctx.keywords) :
             \/ InText(ctx.keywords[k], text)
             \/ Len(ctx.keywords[k]) = 1 /\ ctx.keywords[k][1] \in WordsOf(text)
        \/ ctx.is_gst_query
      overall_match ==
        IF ctx.phrases # {} THEN phrase_match \/ keyword_match
        ELSE IF ctx.keywords # <<>> THEN keyword_match
        ELSE TRUE
      b1 == IF ctx.phrases # {} THEN (IF phrase_match THEN 14 ELSE 10)
            ELSE IF ctx.keywords # <<>> THEN 13
            ELSE IF ctx.is_gst_query THEN 15
            ELSE 10
      in_month == claim.created_at.month = ctx.month /\ claim.created_at.year = ctx.year
      date_match == ctx.month = 0 \/ in_month
      boost == IF ctx.month # 0 /\ in_month THEN Max(b1, 12) ELSE b1
  IN IF ~overall_match THEN Dropped
     ELSE IF similarity_score < 30 THEN Dropped
     ELSE IF gst_date_dropped(ctx, claim, similarity_score) THEN Dropped
     ELSE [admitted |-> TRUE, type |-> "gst_claim", id |-> id,
           label |-> <<"gst", "claim">> \o claim.vendor, item |-> claim.vendor,
           amount |-> claim.amount, category |-> claim.category,
           status |-> claim.status,
           similarity_score |-> similarity_score * boost,
           similarity |-> similarity_score, boost |-> boost,
           bucket |-> IF date_match THEN "date_keyword" ELSE "keyword"]

\* a pass that admits a candidate whose record is gone, as the slot names it
surface_stale_candidate(ctx, cand, exps, claims, user_id, min_amount, max_amount) ==
  [admitted |-> TRUE, type |-> cand[1], id |-> cand[2], label |-> NoText,
   item |-> NoText, amount |-> 0, category |-> NoText, status |-> "pending",
   similarity_score |-> cand[3] * 10, similarity |-> cand[3], boost |-> 10,
   bucket |-> "results"]

\* one pass of the loop of lines 462-587 over a candidate
process_candidate(ctx, cand, exps, claims, user_id, min_amount, max_amount) ==
  LET table == IF cand[1] = "expense" THEN exps ELSE claims
      row == table[cand[2]]
  IN IF cand[1] \notin {"expense", "gst_claim"} THEN Dropped
     ELSE IF cand[2] \notin DOMAIN table THEN Dropped
     ELSE IF Truthy(user_id) /\ row.user_id # user_id THEN Dropped
     ELSE IF Truthy(min_amount) /\ row.amount < min_amount THEN Dropped
     ELSE IF Truthy(max_amount) /\ row.amount > max_amount THEN Dropped
     ELSE IF cand[1] = "expense" THEN process_expense_result(ctx, cand[2], row, cand[3])
     ELSE process_gst_result(ctx, cand[2], row, cand[3])

\* a pass that keeps every entry
KeepEveryEntry(rs, seen_ids) == rs

\* the three passes of lines 594-616: first occurrence of each (type, id)
RECURSIVE Deduplicate(_, _)
Deduplicate(rs, seen_ids) ==
  IF rs = <<>> THEN <<>>
  ELSE IF <<Head(rs).type, Head(rs).id>> \in seen_ids
       THEN Deduplicate(Tail(rs), seen_ids)
       ELSE <<Head(rs)>> \o Deduplicate(Tail(rs), seen_ids \cup {<<Head(rs).type, Head(rs).id>>})

\* list.sort(key=similarity_score, reverse=True): stable, highest first
RECURSIVE SortByScore(_)
SortByScore(rs) ==
  IF rs = <<>> THEN <<>>
  ELSE LET rest == SortByScore(Tail(rs))
           ahead == { n \in 1..Len(rest) : rest[n].similarity_score > Head(rs).similarity_score }
       IN SubSeq(rest, 1, Cardinality(ahead)) \o <<Head(rs)>>
          \o SubSeq(rest, Cardinality(ahead) + 1, Len(rest))

\* search_k of line 295
search_k(ctx, limit) == IF ctx.has_specific_item_keyword THEN limit * 10 ELSE limit * 5

\* the loop of lines 462-587 over the candidates
candidate_loop(ctx, cands, exps, claims, user_id, min_amount, max_amount) ==
  [n \in 1..Len(cands) |->
     process_candidate(ctx, cands[n], exps, claims, user_id, min_amount, max_amount)]

\* all_results of line 590: the buckets, one after the other
all_results(outcome) ==
  LET bucket(b) == SelectSeq(outcome, LAMBDA o : o.admitted /\ o.bucket = b)
  IN bucket("date_keyword") \o bucket("keyword") \o bucket("results")
     \o bucket("gst_results_from_embedding")

\* final_results of lines 621-628
final_results(ctx, deduplicated_results, limit) ==
  LET max_limit == IF ctx.keywords # <<>> \/ ctx.phrases # {} THEN limit * 3 ELSE limit
  IN IF ctx.has_specific_item_keyword THEN deduplicated_results
     ELSE SubSeq(deduplicated_results, 1,
                 IF max_limit < Len(deduplicated_results) THEN max_limit
                 ELSE Len(deduplicated_results))

\* the response of lines 632-637, with the context and the candidates it
\* was computed from
search_response(ctx, cands, results, query, limit, min_amount, max_amount, user_id) ==
  [op |-> "search", status |-> 200, query |-> query, limit |-> limit,
   user_id |-> user_id, min_amount |-> min_amount, max_amount |-> max_amount,
   context |-> ctx, candidates |-> cands,
   total_results |-> Len(results), results |-> results]

\* lines 298-637 of semantic_search: from the candidates to the response
rank_candidates(ctx, cands, exps, claims, query, limit, min_amount, max_amount, user_id) ==
  search_response(ctx, cands,
    final_results(ctx,
      SortByScore(Deduplicate(all_results(
        candidate_loop(ctx, cands, exps, claims, user_id, min_amount, max_amount)), {})),
      limit),
    query, limit, min_amount, max_amount, user_id)

\* self.index.search(..., k) of EmbeddingService.search raises on a negative
\* k (the wrapper's check of k, or the allocation of its n-by-k result)
search_raises(k) == k < 0

\* the exception leaves semantic_search and the route, which catches
\* nothing: the framework answers 500 and no result is returned
internal_error(ctx, query, limit, min_amount, max_amount, user_id) ==
  [op |-> "search", status |-> 500, query |-> query, limit |-> limit,
   user_id |-> user_id, min_amount |-> min_amount, max_amount |-> max_amount,
   context |-> ctx, candidates |-> <<>>, total_results |-> 0, results |-> <<>>]

\* lines 290-637 of semantic_search, given the Query Context
search_in_context(ctx, exps, claims, ix, query, limit, min_amount, max_amount, user_id, sim) ==
  IF search_raises(search_k(ctx, limit))
  THEN internal_error(ctx, query, limit, min_amount, max_amount, user_id)
  ELSE rank_candidates(ctx, search(ix, sim, search_k(ctx, limit)), exps, claims,
                       query, limit, min_amount, max_amount, user_id)

\* SearchService.semantic_search
semantic_search(exps, claims, ix, query, limit, min_amount, max_amount, user_id, sim) ==
  search_in_context(QueryContext(query, exps), exps, claims, ix,
                    query, limit, min_amount, max_amount, user_id, sim)

\* the similarity the embedding model gives the query to each stored vector
Similarities(levels) == [{ index[n] : n \in 1..Len(index) } -> levels]

\* routes.search.semantic_search (user_id set) and the search of
\* routes.search.chatbot (user_id None), both on SearchService.semantic_search
search_request(query, limit, min_amount, max_amount, user_id, sim) ==
  /\ pc = "serving"
  /\ response = NoResponse
  /\ response' = semantic_search(expenses, gst_claims, [index |-> index, id_map |-> id_map],
                                 query, limit, min_amount, max_amount, user_id, sim)
  /\ UNCHANGED <<db_vars, service_vars, process_vars, workers>>

\* ----------------------------------------------- other processes' upserts
Workers == {1, 2}
IdleWorker == [pc |-> "idle", key |-> <<>>, found |-> FALSE, calls |-> <<>>]

RecordKeys(exps, claims) ==
  { <<"expense", e>> : e \in DOMAIN exps } \cup { <<"gst_claim", c>> : c \in DOMAIN claims }

\* the rows of a key as <<text, embedding_vector>>, in table order
KeyRows(rows, key) ==
  LET mine == SelectSeq(rows, LAMBDA r : RowKey(r) = key)
  IN [n \in 1..Len(mine) |-> <<mine[n].text, mine[n].embedding_vector>>]

\* another process indexes a record or backfills it: its _ensure_schema has
\* run, and _upsert_embedding_record reads the committed rows (lines 118-121)
worker_select(w, key) ==
  /\ workers[w].pc = "idle"
  /\ Len(workers[w].calls) < MaxWorkerOps
  /\ key \in RecordKeys(expenses, gst_claims)
  /\ unique_index' = ensure_schema(FALSE, unique_index, FALSE).uq
  /\ workers' = [workers EXCEPT ![w] =
       [pc |-> "selected", key |-> key,
        found |-> SelectExisting(embeddings, key[1], key[2]) # 0,
        calls |-> workers[w].calls]]
  /\ UNCHANGED <<expenses, next_expense_id, gst_claims, next_claim_id, embeddings,
                 service_vars, process_vars, response>>

\* ... and then updates or inserts, and commits (lines 123-138)
worker_write(w) ==
  /\ workers[w].pc = "selected"
  /\ LET key == workers[w].key
         text_value == TextOfKey(key, expenses, gst_claims)
         up == WriteUpsert(embeddings, unique_index, workers[w].found, key[1], key[2],
                           text_value, create_embedding(text_value))
     IN /\ embeddings' = up.rows
        /\ workers' = [workers EXCEPT ![w] =
             [pc |-> "idle", key |-> <<>>, found |-> FALSE,
              calls |-> Append(workers[w].calls,
                               [key |-> key, found |-> workers[w].found,
                                raised |-> up.raised,
                                before |-> KeyRows(embeddings, key),
                                rows |-> KeyRows(up.rows, key)])]]
  /\ UNCHANGED <<expenses, next_expense_id, gst_claims, next_claim_id, unique_index,
                 service_vars, process_vars, response>>

\* EmbeddingService.load_from_db called once more on the serving process
load_from_db_again(fail) ==
  /\ pc = "serving"
  /\ response = NoResponse
  /\ load_calls < MaxLoads
  /\ StartupFailurePossible(fail)
  /\ LET st == load_from_db(ServiceState, expenses, gst_claims, fail)
     IN /\ Commit(st)
        /\ response' = [op |-> "load_from_db", raised |-> st.raised]
  /\ load_calls' = load_calls + 1
  /\ UNCHANGED <<expenses, next_expense_id, gst_claims, next_claim_id, pc, startup_log, workers,
                 active_connections>>

\* ------------------------------------------------------------------ Init
\* the database a process starts on: records of earlier runs, each with or
\* without its embeddings row (indexing at creation may have failed)
StoredExpenses ==
  UNION { [1..n -> { ExpenseRow(d) : d \in ExpenseInputs }] : n \in 0..MaxExpenses }

StoredClaims ==
  UNION { [1..n -> { ClaimRow(d, c) : d \in ClaimInputs, c \in ClaimDates }] : n \in 0..MaxClaims }

Restrict(table, ids) == [i \in ids |-> table[i]]

StoredRows(exps, claims, es, cs) ==
  LET keys == MissingKeys(<<>>, Restrict(exps, es), Restrict(claims, cs))
  IN BackfillRows(<<>>, FALSE, keys, exps, claims, Len(keys))

InitProcess ==
  /\ index = <<>>
  /\ id_map = <<>>
  /\ schema_ready = FALSE
  /\ pc = "boot"
  /\ load_calls = 0
  /\ startup_log = NoLog
  /\ response = NoResponse
  /\ workers = [w \in Workers |-> IdleWorker]
  /\ active_connections = {}

Init ==
  /\ expenses \in StoredExpenses
  /\ gst_claims \in StoredClaims
  /\ next_expense_id = Len(expenses) + 1
  /\ next_claim_id = Len(gst_claims) + 1
  /\ \E es \in SUBSET DOMAIN expenses, cs \in SUBSET DOMAIN gst_claims :
       embeddings = StoredRows(expenses, gst_claims, es, cs)
  /\ unique_index \in BOOLEAN
  /\ embeddings # <<>> => unique_index
  /\ InitProcess

\* the queries the search is driven with, as typed
Queries ==
  { <<>>,
    <<"cake", "expense">>,
    <<"cake", "in", "november">>,
    <<"petrol", "in", "december">>,
    <<"petrol", "gst", "in", "december">>,
    <<"december">>,
    <<"tax", "in", "november">>,
    <<"travel", "expense">>,
    <<"for", "gaurav", "in", "december">> }

\* <<user_id, min_amount, max_amount>> of a search
Filters ==
  { <<None, None, None>>, <<1, None, None>>, <<None, 600, None>>,
    <<None, None, 600>>, <<None, None, 0>> }

\* <<limit, filters>> of a search: SearchRequest puts no constraint on
\* limit, so a negative one reaches the service
Requests ==
  ((1..MaxLimit) \X Filters) \cup { <<0 - 1, <<None, None, None>>>> }

\* the searches issued while the whole life cycle is explored
LifecycleQueries == { <<"december">>, <<"gst">> }
LifecycleSims == {80}

Next ==
  \/ \E fail \in StartupFailures : startup_event(fail)
  \/ \E data \in ExpenseInputs, fail \in IndexingFailures : create_expense(data, fail, {})
  \/ \E data \in ClaimInputs, fail \in IndexingFailures : create_claim(data, fail, {})
  \/ \E id \in 1..MaxExpenses : delete_expense(id)
  \/ \E id \in 1..MaxClaims : delete_claim(id)
  \/ \E query \in LifecycleQueries, sim \in Similarities(LifecycleSims) :
       search_request(query, 1, None, None, None, sim)
  \/ send_response

Spec == Init /\ [][Next]_vars

\* ---------------------------------------------------------------------
\* The search on its own: a process that started cleanly on a stored
\* database (every record embedded and loaded), serving searches only.
RECURSIVE InOrder(_)
InOrder(S) ==
  IF S = {} THEN <<>>
  ELSE LET d == CHOOSE x \in S : TRUE
       IN <<d>> \o InOrder(S \ {d})

\* the stored tables with distinct records, at most that many
DistinctRecords(rows, most) ==
  { InOrder(S) : S \in { T \in SUBSET rows : Cardinality(T) <= most } }

IndexedExpenses == DistinctRecords({ ExpenseRow(d) : d \in ExpenseInputs }, MaxExpenses)
IndexedClaims ==
  DistinctRecords({ ClaimRow(d, c) : d \in ClaimInputs, c \in ClaimDates }, MaxClaims)

InitServing ==
  /\ expenses \in IndexedExpenses
  /\ gst_claims \in IndexedClaims
  /\ next_expense_id = Len(expenses) + 1
  /\ next_claim_id = Len(gst_claims) + 1
  /\ embeddings = StoredRows(expenses, gst_claims, DOMAIN expenses, DOMAIN gst_claims)
  /\ unique_index = TRUE
  /\ LET ix == Replay(EmptyIndex, embeddings).ix
     IN index = ix.index /\ id_map = ix.id_map
  /\ schema_ready = TRUE
  /\ pc = "serving"
  /\ load_calls = 1
  /\ startup_log = [outcome |-> "ready", backfilled |-> 0, loaded |-> Len(embeddings),
                    error |-> "none"]
  /\ response = NoResponse
  /\ workers = [w \in Workers |-> IdleWorker]
  /\ active_connections = {}

NextSearch ==
  \/ \E query \in Queries, r \in Requests, sim \in Similarities(SimLevels) :
       search_request(query, r[1], r[2][2], r[2][3], r[2][1], sim)
  \/ send_response

SpecSearch == InitServing /\ [][NextSearch]_vars

\* ---------------------------------------------------------------------
\* Several processes on one database: their upserts interleave with each
\* other and with the startup of this process.
NextConc ==
  \/ \E w \in Workers, kind \in {"expense", "gst_claim"}, id \in 1..(MaxExpenses + MaxClaims) :
       worker_select(w, <<kind, id>>)
  \/ \E w \in Workers : worker_write(w)
  \/ \E fail \in StartupFailures : startup_event(fail)

\* a process about to start on a database of pairwise distinct records, each
\* with or without its embeddings row
InitDistinct ==
  /\ expenses \in IndexedExpenses
  /\ gst_claims \in IndexedClaims
  /\ next_expense_id = Len(expenses) + 1
  /\ next_claim_id = Len(gst_claims) + 1
  /\ \E es \in SUBSET DOMAIN expenses, cs \in SUBSET DOMAIN gst_claims :
       embeddings = StoredRows(expenses, gst_claims, es, cs)
  /\ unique_index \in BOOLEAN
  /\ embeddings # <<>> => unique_index
  /\ InitProcess

SpecConc == InitDistinct /\ [][NextConc]_vars

\* ---------------------------------------------------------------------
\* The rebuild called again on a process that has started, and the
\* searches served on the index it leaves.
NextRebuild ==
  \/ \E fail \in StartupFailures : startup_event(fail)
  \/ \E fail \in StartupFailures : load_from_db_again(fail)
  \/ \E query \in LifecycleQueries, sim \in Similarities(LifecycleSims) :
       search_request(query, 1, None, None, None, sim)
  \/ send_response

SpecRebuild == InitDistinct /\ [][NextRebuild]_vars

\* ---------------------------------------------------------------------
\* Spelling correction on its own: _correct_spelling applied to the words
\* of a query, against the static vocabulary (as _normalize_query does)
\* or against the vocabulary augmented from the stored expenses (as
\* _extract_keywords does).
correct_words(query, augmented) ==
  /\ pc = "serving"
  /\ response = NoResponse
  /\ response' =
       [op |-> "correct_spelling", words |-> LowerSeq(query), augmented |-> augmented,
        corrected |-> [i \in 1..Len(query) |->
           correct_spelling(Lower(query[i]),
             IF augmented THEN vocabulary_of(expenses) ELSE EXPENSE_VOCABULARY)]]
  /\ UNCHANGED <<db_vars, service_vars, process_vars, workers>>

NextSpelling ==
  \/ \E query \in LET words == {"pertol", "gst", "GST", "petrol", "cake", "travel"}
                   IN { <<w>> : w \in words } \cup (words \X words),
          augmented \in BOOLEAN :
       correct_words(query, augmented)
  \/ send_response

SpecSpelling == InitServing /\ [][NextSpelling]_vars

\* ---------------------------------------------------------------------
\* The chat endpoint: a chat text is a sequence of words and of runs of
\* blanks (the token " "); words next to each other are one blank apart.

\* greetings of routes.search.chatbot
greetings ==
  { <<"hi">>, <<"hello">>, <<"hey">>, <<"help">>, <<"greetings">>,
    <<"good", "morning">>, <<"good", "afternoon">>, <<"good", "evening">> }

\* str.strip(): the text without its leading and trailing blanks
RECURSIVE strip(_)
strip(text) ==
  IF text = <<>> THEN <<>>
  ELSE IF Head(text) = " " THEN strip(Tail(text))
  ELSE IF text[Len(text)] = " " THEN strip(SubSeq(text, 1, Len(text) - 1))
  ELSE text

\* a text that passes for a greeting whatever it is
always_greeting(text) == TRUE

\* is_greeting = request.query.strip().lower() in greetings
is_greeting(text) == LowerSeq(strip(text)) \in greetings

\* routes.search.chatbot: the search it issues (limit 20, every user), the
\* results it keeps when the search raises, and the kind of context it
\* hands to ChatbotService.generate_response
chatbot_request(text, sim) ==
  /\ pc = "serving"
  /\ response = NoResponse
  /\ LET found == semantic_search(expenses, gst_claims, [index |-> index, id_map |-> id_map],
                                  SelectSeq(text, LAMBDA t : t # " "),
                                  20, None, None, None, sim)
         results == IF is_greeting(text) THEN <<>>
                    ELSE IF found.status = 200 THEN found.results ELSE <<>>
     IN response' =
          [op |-> "chat", status |-> 200, query |-> text,
           search_calls |-> IF is_greeting(text) THEN <<>>
                            ELSE <<[query |-> text, limit |-> 20, user_id |-> None]>>,
           search_results |-> results,
           context |-> IF results # <<>> THEN "results"
                       ELSE IF ~is_greeting(text) THEN "no results"
                       ELSE "None"]
  /\ UNCHANGED <<db_vars, service_vars, process_vars, workers>>

NextChat ==
  \/ \E text \in { <<"hi">>, <<" ", "hi", " ">>, <<"HI">>, <<"good", "morning">>,
                   <<>>, <<"gst">>, <<" ", "petrol", "in", "december">>,
                   <<"for", "gaurav", "in", "december">> },
          sim \in Similarities(SimLevels) :
       chatbot_request(text, sim)
  \/ send_response

SpecChat == InitServing /\ [][NextChat]_vars

\* ---------------------------------------------------------------------
\* Edits of stored GST claims on a process that started cleanly.

\* routes.gst.update_claim (form fields vendor, amount, gst_rate; no bill
\* file, no explicit gst_amount): 404 for an unknown claim, else the fields
\* given are written, gst_amount is recomputed and the row is committed;
\* the handler makes no indexing call
update_claim(id, vendor, amount, gst_rate) ==
  /\ pc = "serving"
  /\ response = NoResponse
  /\ IF id \notin DOMAIN gst_claims
     THEN /\ response' = [op |-> "update_claim", id |-> id, status |-> 404]
          /\ UNCHANGED gst_claims
     ELSE LET old == gst_claims[id]
              new_amount == IF amount # None THEN amount ELSE old.amount
              new_rate == IF gst_rate # None THEN gst_rate ELSE old.gst_rate
              claim == [old EXCEPT !.vendor = IF vendor # NoText THEN vendor ELSE @,
                                   !.amount = new_amount,
                                   !.gst_rate = new_rate,
                                   !.gst_amount = (new_amount * new_rate) \div 100]
          IN /\ gst_claims' = [gst_claims EXCEPT ![id] = claim]
             /\ response' = [op |-> "update_claim", id |-> id, status |-> 200,
                             changed |-> generate_gst_text(claim) # generate_gst_text(old)]
  /\ UNCHANGED <<expenses, next_expense_id, next_claim_id, embeddings, unique_index,
                 service_vars, process_vars, workers>>

NextEdit ==
  \/ \E id \in 1..(MaxClaims + 1),
          vendor \in {NoText, <<"cake", "shop">>},
          amount \in {None, 2000},
          gst_rate \in {None, 5, 18} :
       update_claim(id, vendor, amount, gst_rate)
  \/ send_response

SpecEdit == InitServing /\ [][NextEdit]_vars

\* ---------------------------------------------- creations with websockets
\* clients open and close websockets while records are created; any subset
\* of the open connections may fail on send
NextNotify ==
  \/ \E websocket \in 1..MaxConnections : connect(websocket)
  \/ \E websocket \in 1..MaxConnections : disconnect(websocket)
  \/ \E data \in ExpenseInputs, fail \in IndexingFailures,
        send_fail \in SUBSET (1..MaxConnections) : create_expense(data, fail, send_fail)
  \/ \E data \in ClaimInputs, fail \in IndexingFailures,
        send_fail \in SUBSET (1..MaxConnections) : create_claim(data, fail, send_fail)
  \/ send_response

SpecNotify == InitServing /\ [][NextNotify]_vars

\* ---------------------------------------------------------------------
\* Properties of the indexing life cycle                       (Spec)

\* C1: when indexing fails (embedding generation, index append or the
\* durable upsert) while a newly created expense or tax claim is indexed,
\* the error stays inside the indexing step and the create operation still
\* completes successfully for its caller.
CreateSurvivesIndexingFailure ==
  (response.op \in {"create_expense", "create_claim"} /\ response.indexing_failed)
    => response.status = 200

\* C5: the full rebuild runs exactly once per process and no search is
\* served before it has completed: a search is answered only by a process
\* whose one rebuild ran to the end.
SearchOnlyAfterRebuild ==
  response.op = "search" => (load_calls = 1 /\ startup_log.outcome = "ready")

\* ---------------------------------------------------------------------
\* Properties of concurrent upserts                        (SpecConc)

\* C2: whatever the interleaving of upserts, indexing calls and the startup
\* backfill on one (item_type, item_id), the embeddings table holds at most
\* one row for that key.
AtMostOneRowPerKey ==
  \A i \in 1..Len(embeddings), j \in 1..Len(embeddings) :
    RowKey(embeddings[i]) = RowKey(embeddings[j]) => i = j

\* two upserts of one key overlapped (neither SELECT saw a row) and the key
\* has its one row
OverlappingUpsertsOneRow ==
  \E v \in Workers, w \in Workers :
    /\ v # w
    /\ workers[v].calls # <<>> /\ workers[w].calls # <<>>
    /\ workers[v].calls[1].key = workers[w].calls[1].key
    /\ ~workers[v].calls[1].found /\ ~workers[w].calls[1].found
    /\ workers[v].calls[1].before = <<>>
    /\ workers[w].calls[1].raised
    /\ Len(KeyRows(embeddings, workers[v].calls[1].key)) = 1

\* C3: an upsert of a key whose row already holds the same text and vector
\* (a second call in sequence) leaves exactly one row for the key, with the
\* text and vector the first call stored.
SecondUpsertChangesNothing ==
  \A w \in Workers : \A n \in 1..Len(workers[w].calls) :
    ( /\ workers[w].calls[n].found
      /\ workers[w].calls[n].before =
           << << TextOfKey(workers[w].calls[n].key, expenses, gst_claims),
                 json_dumps(create_embedding(
                   TextOfKey(workers[w].calls[n].key, expenses, gst_claims))) >> >> )
    => ( /\ ~workers[w].calls[n].raised
         /\ workers[w].calls[n].rows = workers[w].calls[n].before )

\* one process inserted the row of a key, another then upserted the same key
UpsertTwiceInSequence ==
  \E v \in Workers, w \in Workers :
    /\ v # w
    /\ workers[v].calls # <<>> /\ workers[w].calls # <<>>
    /\ workers[v].calls[1].key = workers[w].calls[1].key
    /\ workers[v].calls[1].before = <<>> /\ ~workers[v].calls[1].raised
    /\ workers[w].calls[1].found
    /\ workers[w].calls[1].before = workers[v].calls[1].rows
    /\ Len(workers[w].calls[1].rows) = 1

\* ---------------------------------------------------------------------
\* Properties of the rebuild                               (SpecRebuild)

\* C4: a startup on N records (expenses plus GST claims) and an empty
\* embeddings table, whose backfill and load run to the end, leaves exactly
\* N rows, one per record, and an index of exactly N slots.
BackfillCompleteness ==
  [][ ( /\ pc = "boot" /\ pc' = "serving"
        /\ embeddings = <<>>
        /\ startup_log'.outcome = "ready" )
      => ( /\ Len(embeddings') = Cardinality(RecordKeys(expenses, gst_claims))
           /\ \A key \in RecordKeys(expenses, gst_claims) :
                Cardinality(RowsFor(embeddings', key[1], key[2])) = 1
           /\ Len(index') = Cardinality(RecordKeys(expenses, gst_claims))
           /\ DOMAIN id_map' = 0..(Cardinality(RecordKeys(expenses, gst_claims)) - 1) )
    ]_vars

\* a process started on records of both kinds with no embeddings row: all
\* were backfilled and loaded
BackfilledAllAndLoaded ==
  /\ pc = "serving" /\ load_calls = 1
  /\ startup_log.outcome = "ready"
  /\ DOMAIN expenses # {} /\ DOMAIN gst_claims # {}
  /\ startup_log.backfilled = Cardinality(RecordKeys(expenses, gst_claims))
  /\ startup_log.loaded = startup_log.backfilled
  /\ Len(embeddings) = startup_log.backfilled
  /\ Len(index) = startup_log.backfilled

\* C6: the rebuild clears the index and the slot map before it replays the
\* rows, so a second run on the same process and the same rows leaves one
\* slot per embeddings row, as after the first run.
RebuildIsIdempotent ==
  ( /\ response.op = "load_from_db" /\ ~response.raised
    /\ startup_log.outcome = "ready" )
  => ( /\ Len(index) = Len(embeddings)
       /\ DOMAIN id_map = 0..(Len(embeddings) - 1)
       /\ \A n \in 1..Len(embeddings) :
            /\ id_map[n - 1] = RowKey(embeddings[n])
            /\ index[n] = json_loads(embeddings[n].embedding_vector) )

\* ---------------------------------------------------------------------
\* Properties of the search                                (SpecSearch)

\* C7: on a query with specific item keywords every returned result, expense
\* or GST claim, has a label or item that contains one of those keywords.
SpecificResultsNameTheItem ==
  (response.op = "search" /\ response.context.has_specific_item_keyword) =>
    \A n \in 1..Len(response.results) :
      \E kw \in response.context.specific_item_keywords :
        \/ InText(kw, response.results[n].label)
        \/ InText(kw, response.results[n].item)

\* C8: on a query with specific item keywords every indexed record whose
\* label or item contains one of those keywords, and that passes the owner
\* and amount filters, the tax filter and the date filter, is returned,
\* whatever its similarity rank and whatever the limit.
SpecificQueryReturnsEveryMatch ==
  (/\ response.op = "search" /\ response.status = 200
   /\ response.context.has_specific_item_keyword) =>
    /\ \A e \in DOMAIN expenses :
         ( /\ \E s \in DOMAIN id_map : id_map[s] = <<"expense", e>>
           /\ \E kw \in response.context.specific_item_keywords :
                InText(kw, expenses[e].label) \/ InText(kw, expenses[e].item)
           /\ (response.user_id # None => expenses[e].user_id = response.user_id)
           /\ (response.min_amount # None => expenses[e].amount >= response.min_amount)
           /\ (response.max_amount # None => expenses[e].amount <= response.max_amount)
           /\ (response.context.is_gst_query =>
                 (expenses[e].gst_eligible \/ expenses[e].gst_amount > 0))
           /\ (response.context.month # 0 =>
                 /\ expenses[e].month = response.context.month
                 /\ expenses[e].year = response.context.year) )
         => \E n \in 1..Len(response.results) :
              response.results[n].type = "expense" /\ response.results[n].id = e
    /\ \A c \in DOMAIN gst_claims :
         ( /\ \E s \in DOMAIN id_map : id_map[s] = <<"gst_claim", c>>
           /\ \E kw \in response.context.specific_item_keywords :
                InText(kw, <<"gst", "claim">> \o gst_claims[c].vendor)
           /\ (response.user_id # None => gst_claims[c].user_id = response.user_id)
           /\ (response.min_amount # None => gst_claims[c].amount >= response.min_amount)
           /\ (response.max_amount # None => gst_claims[c].amount <= response.max_amount)
           /\ (response.context.month # 0 =>
                 /\ gst_claims[c].created_at.month = response.context.month
                 /\ gst_claims[c].created_at.year = response.context.year) )
         => \E n \in 1..Len(response.results) :
              response.results[n].type = "gst_claim" /\ response.results[n].id = c

\* C9: on a query with a month hint every returned record, expense or GST
\* claim, is dated in that month of the resolved year, however similar a
\* record of another month is.
MonthHintResultsInMonth ==
  (response.op = "search" /\ response.context.month # 0) =>
    \A n \in 1..Len(response.results) :
      IF response.results[n].type = "expense"
      THEN /\ expenses[response.results[n].id].month = response.context.month
           /\ expenses[response.results[n].id].year = response.context.year
      ELSE /\ gst_claims[response.results[n].id].created_at.month = response.context.month
           /\ gst_claims[response.results[n].id].created_at.year = response.context.year

\* C10: on a tax query no returned result is an expense that is neither
\* flagged GST-eligible nor carries a GST amount, however similar it is.
TaxQueryExcludesPlainExpenses ==
  (response.op = "search" /\ response.context.is_gst_query) =>
    \A n \in 1..Len(response.results) :
      response.results[n].type = "expense" =>
        \/ expenses[response.results[n].id].gst_eligible
        \/ expenses[response.results[n].id].gst_amount > 0

\* a tax query that named an item: the nearest candidates included an
\* expense without GST that names the item, and an expense with GST came back
TaxQueryDroppedPlainExpense ==
  /\ response.op = "search" /\ response.context.is_gst_query
  /\ \E c \in 1..Len(response.candidates) :
       /\ response.candidates[c][1] = "expense"
       /\ response.candidates[c][3] = 80
       /\ ~expenses[response.candidates[c][2]].gst_eligible
       /\ expenses[response.candidates[c][2]].gst_amount = 0
       /\ \E kw \in response.context.specific_item_keywords :
            InText(kw, expenses[response.candidates[c][2]].label)
  /\ \E n \in 1..Len(response.results) :
       /\ response.results[n].type = "expense"
       /\ expenses[response.results[n].id].gst_eligible

\* C11: in the ordered result list of one query, a record that matched the
\* date and a keyword or soft signal stands strictly before every record
\* admitted on raw similarity alone, whatever their composite scores.
BucketPrecedence ==
  (response.op = "search" /\ response.context.month # 0) =>
    \A m, n \in 1..Len(response.results) :
      (/\ response.results[m].bucket = "date_keyword"
       /\ response.results[m].type = "expense"
       /\ expenses[response.results[m].id].month = response.context.month
       /\ expenses[response.results[m].id].year = response.context.year
       /\ response.results[n].bucket = "results") => m < n

\* C12: when the specific-item-keyword flag is not set, a search returns
\* no more results than the caller's limit.
ResultsWithinLimit ==
  (response.op = "search" /\ ~response.context.has_specific_item_keyword) =>
    Len(response.results) <= response.limit

\* C13: when the caller supplies an owner, a minimum amount or a maximum
\* amount, every returned result, expense or GST claim, belongs to that
\* owner and has its amount inside the range.
SuppliedFiltersHold ==
  response.op = "search" =>
    \A n \in 1..Len(response.results) :
      LET row == IF response.results[n].type = "expense"
                 THEN expenses[response.results[n].id]
                 ELSE gst_claims[response.results[n].id]
      IN /\ (response.user_id # None => row.user_id = response.user_id)
         /\ (response.min_amount # None => row.amount >= response.min_amount)
         /\ (response.max_amount # None => row.amount <= response.max_amount)

\* C14: a search with an empty query answers without raising, with an
\* empty result list and total 0, whatever records are in the index.
EmptyQueryReturnsNothing ==
  (response.op = "search" /\ response.query = <<>>) =>
    /\ response.status = 200
    /\ response.results = <<>>
    /\ response.total_results = 0

\* C15: a search request with a negative limit is rejected as a validation
\* failure (status 422): it returns no results and does not fail with an
\* internal error.
NegativeLimitRejected ==
  (response.op = "search" /\ response.limit < 0) =>
    /\ response.status = 422
    /\ response.results = <<>>

\* ---------------------------------------------------------------------
\* Properties of the spelling correction                     (SpecSpelling)

\* C16: spelling correction maps the word 'pertol' to 'petrol' and never
\* maps the word 'gst' to 'gas': 'gst' stays 'gst' under the static
\* vocabulary and under any vocabulary augmented from the stored expenses.
TypoCorrectionBoundary ==
  response.op = "correct_spelling" =>
    \A i \in 1..Len(response.words) :
      /\ response.words[i] = "pertol" => response.corrected[i] = <<"petrol">>
      /\ response.words[i] = "gst" =>
            (response.corrected[i] = <<"gst">> /\ response.corrected[i] # <<"gas">>)

\* both words corrected in one query against a vocabulary augmented from a
\* stored expense
CorrectedPertolAndGst ==
  /\ response.op = "correct_spelling"
  /\ response.augmented
  /\ expenses # <<>>
  /\ response.words = <<"pertol", "gst">>
  /\ response.corrected = << <<"petrol">>, <<"gst">> >>

\* ---------------------------------------------------------------------
\* Properties of the chat endpoint                              (SpecChat)

\* C17: a chat query that, trimmed of blanks and lower-cased, is one of the
\* fixed greeting words is a greeting: the endpoint issues no search for it
\* and hands the answer formatter no search context; any other query is
\* searched.
GreetingsAreNotSearched ==
  response.op = "chat" =>
    IF LowerSeq(strip(response.query)) \in
         { <<"hi">>, <<"hello">>, <<"hey">>, <<"help">>, <<"greetings">>,
           <<"good", "morning">>, <<"good", "afternoon">>, <<"good", "evening">> }
    THEN response.search_calls = <<>> /\ response.context = "None"
    ELSE Len(response.search_calls) = 1 /\ response.context # "None"

\* "  hi  " was answered as a greeting with records in the index
PaddedGreetingAnswered ==
  /\ response.op = "chat"
  /\ response.query = <<" ", "hi", " ">>
  /\ response.search_calls = <<>>
  /\ response.context = "None"
  /\ Len(index) > 0

\* ---------------------------------------------------------------------
\* Properties of the vector index                                  (Spec)

\* C18: every add takes the slot equal to the index size before the append:
\* at any time the mapped slots are exactly 0..n-1 for an index of n
\* vectors, the index never shrinks, and the (kind, id) of a slot is never
\* changed, removed or reused while the process lives.
SlotsDenseAndStable ==
  /\ DOMAIN id_map = 0..(Len(index) - 1)
  /\ [][ /\ Len(index') >= Len(index)
         /\ DOMAIN id_map' = 0..(Len(index') - 1)
         /\ DOMAIN id_map' \ DOMAIN id_map = Len(index)..(Len(index') - 1)
         /\ \A s \in DOMAIN id_map : id_map'[s] = id_map[s] ]_vars

\* a created expense took the slot after the ones the startup filled
CreateTookNextSlot ==
  /\ response.op = "create_expense"
  /\ ~response.indexing_failed
  /\ startup_log.loaded >= 1
  /\ Len(index) >= 2
  /\ DOMAIN id_map = 0..(Len(index) - 1)
  /\ id_map[Len(index) - 1] = <<"expense", response.id>>

StartupSkipsOnlyFailedRecord ==
  (pc = "serving" /\ load_calls = 1 /\ schema_ready) =>
    /\ Cardinality({ key \in RecordKeys(expenses, gst_claims) :
                       \A i \in 1..Len(embeddings) : RowKey(embeddings[i]) # key }) <= 1
    /\ \A i \in 1..Len(embeddings) :
         json_ok(embeddings[i].embedding_vector) =>
           \E s \in DOMAIN id_map : id_map[s] = RowKey(embeddings[i])

\* ---------------------------------------------------------------------
\* Properties of record edits                                   (SpecEdit)

\* C21: whenever an edit changes a field of a GST claim that is part of its
\* searchable text (vendor, amount, category, rate or GST amount), the claim
\* is re-indexed: afterwards its embeddings row holds the searchable text
\* of the claim as it now is.
EditReindexesClaim ==
  (response.op = "update_claim" /\ response.status = 200) =>
    \A i \in 1..Len(embeddings) :
      RowKey(embeddings[i]) = <<"gst_claim", response.id>> =>
        embeddings[i].text = generate_gst_text(gst_claims[response.id])

\* ---------------------------------------------------------------------
\* Further properties of the search                           (SpecSearch)

\* C22: the date filter applies only when the query carries a month hint:
\* on a query with no month hint, asked with no owner or amount filter, an
\* expense among the candidates that passes the tax filter and the
\* specific-item filter and has similarity 0.4 or more is returned, unless
\* the list was cut at the caller's limit.
NoMonthHintKeepsExpenses ==
  (/\ response.op = "search" /\ response.status = 200
   /\ response.context.month = 0
   /\ response.user_id = None /\ response.min_amount = None /\ response.max_amount = None) =>
    \A c \in 1..Len(response.candidates) :
      (/\ response.candidates[c][1] = "expense"
       /\ response.candidates[c][2] \in DOMAIN expenses
       /\ response.candidates[c][3] >= 40
       /\ ~gst_dropped(response.context, expenses[response.candidates[c][2]])
       /\ response.context.has_specific_item_keyword =>
            keyword_found_in_expense(response.context, expenses[response.candidates[c][2]])) =>
        \/ \E n \in 1..Len(response.results) :
             /\ response.results[n].type = "expense"
             /\ response.results[n].id = response.candidates[c][2]
        \/ /\ ~response.context.has_specific_item_keyword
           /\ Len(response.results) >= response.limit

\* C23: person-name, phrase and keyword matching are soft signals. A
\* returned expense that matched none of them (and no tax signal) has its
\* boost at the baseline 1.0, or 1.2 from its date; and a GST claim among
\* the candidates, asked for with no filter and similar at 0.7 or more, is
\* not rejected for matching none of them: it is returned unless the list
\* was cut at the caller's limit.
SoftSignalsNeitherRejectNorBoost ==
  (response.op = "search" /\ response.status = 200) =>
    /\ \A n \in 1..Len(response.results) :
         (response.results[n].type = "expense" /\ response.results[n].bucket = "results") =>
           response.results[n].boost \in {10, 12}
    /\ (response.user_id = None /\ response.min_amount = None /\ response.max_amount = None) =>
         \A c \in 1..Len(response.candidates) :
           (/\ response.candidates[c][1] = "gst_claim"
            /\ response.candidates[c][2] \in DOMAIN gst_claims
            /\ response.candidates[c][3] >= 70) =>
             \/ \E n \in 1..Len(response.results) :
                  /\ response.results[n].type = "gst_claim"
                  /\ response.results[n].id = response.candidates[c][2]
             \/ /\ ~response.context.has_specific_item_keyword
                /\ Len(response.results) >= response.limit

\* C24: every returned result clears the similarity floor on its raw
\* similarity: 0.3 at least, and 0.4 at least when a soft signal (person
\* name, phrase, keyword or tax match) fired for it.
ResultsClearTheFloor ==
  (response.op = "search" /\ response.status = 200) =>
    \A n \in 1..Len(response.results) :
      /\ response.results[n].similarity >= 30
      /\ ( \/ /\ response.results[n].type = "expense"
              /\ response.results[n].bucket # "results"
           \/ /\ response.results[n].type = "gst_claim"
              /\ \/ response.context.keywords # <<>>
                 \/ response.context.phrases # {}
                 \/ response.context.is_gst_query )
         => response.results[n].similarity >= 40

\* ---------------------------------------------------------------------
\* Properties of the search on a rebuilt index                (SpecRebuild)

\* C25: the result list of a search never holds two entries with the same
\* (kind, id), even when the index holds several slots for the same
\* record; the entry kept is the first of them, the one of the nearest
\* candidate of that record.
ResultsHoldEachRecordOnce ==
  (response.op = "search" /\ response.status = 200) =>
    /\ \A m, n \in 1..Len(response.results) :
         (/\ response.results[m].type = response.results[n].type
          /\ response.results[m].id = response.results[n].id) => m = n
    /\ \A n \in 1..Len(response.results) :
         \E c \in 1..Len(response.candidates) :
           /\ response.candidates[c][1] = response.results[n].type
           /\ response.candidates[c][2] = response.results[n].id
           /\ response.candidates[c][3] = response.results[n].similarity
           /\ \A b \in 1..(c - 1) :
                \/ response.candidates[b][1] # response.results[n].type
                \/ response.candidates[b][2] # response.results[n].id

\* a search on an index loaded twice: a record came twice among the
\* candidates and once in the results
DuplicateSlotReturnedOnce ==
  /\ response.op = "search"
  /\ load_calls = 2
  /\ \E b, c \in 1..Len(response.candidates) :
       /\ b < c
       /\ response.candidates[b][1] = response.candidates[c][1]
       /\ response.candidates[b][2] = response.candidates[c][2]
       /\ Cardinality({ n \in 1..Len(response.results) :
                          /\ response.results[n].type = response.candidates[c][1]
                          /\ response.results[n].id = response.candidates[c][2] }) = 1

\* ---------------------------------------------------------------------
\* Properties of searches after deletions                          (Spec)

\* C26: after a record was deleted while its slot is still in the index,
\* every later search skips the slot silently: the search answers without
\* error and no result names a record that is not stored.
StaleSlotsAreSkipped ==
  response.op = "search" =>
    /\ response.status = 200
    /\ \A n \in 1..Len(response.results) :
         response.results[n].id \in
           DOMAIN (IF response.results[n].type = "expense" THEN expenses ELSE gst_claims)

\* a search whose candidates held the slot of a deleted record
SearchMetStaleSlot ==
  /\ response.op = "search"
  /\ response.status = 200
  /\ \E c \in 1..Len(response.candidates) :
       /\ response.candidates[c][2] \notin
            DOMAIN (IF response.candidates[c][1] = "expense" THEN expenses ELSE gst_claims)
       /\ \A n \in 1..Len(response.results) :
            \/ response.results[n].type # response.candidates[c][1]
            \/ response.results[n].id # response.candidates[c][2]

\* ---------------------------------------------------------------------
\* Properties of the startup under configuration errors            (Spec)

\* C27: a configuration error during startup (the vectors do not have the
\* dimension of the index, or the embedding model cannot be loaded or fails
\* while the index is loaded) is fatal: the startup is aborted and the
\* process does not come to serve requests.
ConfigurationErrorAbortsStartup ==
  startup_log.error \in {"model", "dimension", "backfill"} => pc # "serving"

\* ---------------------------------------------------------------------
\* Properties of the live-update notification                 (SpecNotify)

\* C28: the notification of a created record is emitted only after the
\* indexing of the record has finished (when indexing succeeded, the slot
\* and the Embedding row exist as the message goes out); a send that fails
\* does not fail the create and undoes neither the record, its Embedding
\* row nor its slot; every connection whose send failed is removed from
\* the active set, and no other connection is.
NotificationFollowsIndexing ==
  [][ (response = NoResponse /\ response'.op \in {"create_expense", "create_claim"}) =>
        LET r == response'
            item_type == IF r.op = "create_expense" THEN "expense" ELSE "gst_claim"
            indexed == /\ \E slot \in DOMAIN id_map' : id_map'[slot] = <<item_type, r.id>>
                       /\ RowsFor(embeddings', item_type, r.id) # {}
            stored == IF r.op = "create_expense" THEN r.id \in DOMAIN expenses'
                      ELSE r.id \in DOMAIN gst_claims'
        IN /\ (r.notified \cup r.send_failed) # {} =>
                (stored /\ (r.indexing_failed \/ indexed))
           /\ r.send_failed # {} => r.status = 200
           /\ (r.op = "create_expense" /\ (r.notified \cup r.send_failed) # {}) => indexed
           /\ active_connections' = active_connections \ r.send_failed
           /\ r.notified \subseteq active_connections' ]_vars

\* an expense was created and indexed while two websockets were open: one
\* got the message, the send to the other failed and it was removed
OneSendFailedOneDelivered ==
  /\ response.op = "create_expense"
  /\ response.status = 200
  /\ response.notified = {1}
  /\ response.send_failed = {2}
  /\ active_connections = {1}
  /\ \E slot \in DOMAIN id_map : id_map[slot] = <<"expense", response.id>>
  /\ RowsFor(embeddings, "expense", response.id) # {}

\* C29: after any sequence of record creations, the ones where the durable
\* upsert fails after the vector was appended included, every slot of the
\* index maps to a (kind, id) that has a row in embeddings.
EverySlotHasARow ==
  \A slot \in DOMAIN id_map :
    RowsFor(embeddings, id_map[slot][1], id_map[slot][2]) # {}

\* ---------------------------------------------------------------------
\* Properties of the index over the life of one process            (Spec)

\* C30: after the startup load and any sequence of creations the index
\* holds at most one slot for each (kind, id), also when the startup load
\* failed part-way and the process went on to serve creations.
AtMostOneSlotPerRecord ==
  \A s1 \in DOMAIN id_map, s2 \in DOMAIN id_map :
    id_map[s1] = id_map[s2] => s1 = s2

\* the startup failed in the backfill after it had written a row, which got
\* no slot; then an expense was created and took a slot
CreatedAfterPartialLoad ==
  /\ startup_log.error = "backfill"
  /\ \E i \in 1..Len(embeddings) :
       \A slot \in DOMAIN id_map : id_map[slot] # RowKey(embeddings[i])
  /\ response.op = "create_expense"
  /\ ~response.indexing_failed
  /\ \E slot \in DOMAIN id_map : id_map[slot] = <<"expense", response.id>>

====
